---- MODULE Spec2Model ----
(***************************************************************************)
(* ReAct reasoning loop of backend/agents/agentic/react_agent.py:          *)
(* ReActAgent.run, _parse_react_response and _execute_action, with the    *)
(* tool registry AgenticSystem builds.                                     *)
(*                                                                         *)
(* Text is modelled as a sequence of tokens.  A reasoner response is the   *)
(* sequence of its lines (response.split('\n')), each line a sequence of   *)
(* tokens; the markers 'Thought:', 'Action:' and 'Action Input:' are       *)
(* tokens, " " is whitespace, "{" and "}" are the brace characters the     *)
(* parser searches for, and every other token is an opaque run of          *)
(* characters.                                                             *)
(***************************************************************************)
EXTENDS Integers, Sequences, FiniteSets, TLC

VARIABLES
    pc,                 \* position of run(): "loop", "act", "return", "done"
    max_iterations,     \* argument of run()
    trace,              \* the ReActTrace of the run
    pending,            \* (action, action_input) parsed and not yet dispatched
    response,           \* the reasoner's last response (its lines), None before
    llm_calls,          \* number of self.llm.invoke calls made by the run
    usage_count,        \* usage_count of every registered tool
    tool_outcome,       \* what the last tool.execute call did, None before
    reasoning_history,  \* ReActAgent.reasoning_history
    result,             \* the dict run() returned, None before
    parsed,             \* result of _parse_react_response (parsing checks)
    reset_result,       \* what the last AgenticSystem.reset_stats call did
    serialized,         \* TRUE when the server handles one request at a time
    threads,            \* per request: where it stands in tool.execute
    executes,           \* tool.execute invocations made so far, per tool
    args,               \* arguments of the calculator function under check
    ret,                \* what that function returned or raised, None before
    retriever,          \* the DocumentRetriever: directory, collection, cache
    memory              \* the ConversationMemory: max_history and history

\* state outside ReActAgent.run and _parse_react_response
others == <<reset_result, serialized, threads, executes, args, ret, retriever, memory>>

vars == <<pc, max_iterations, trace, pending, response, llm_calls,
          usage_count, tool_outcome, reasoning_history, result, parsed,
          reset_result, serialized, threads, executes, args, ret,
          retriever, memory>>

(***************************************************************************)
(* Bounds                                                                  *)
(***************************************************************************)
MaxIter == 2
MaxLines == 3
LongMsgLen == 600

(***************************************************************************)
(* Optional values: None, or a one-element sequence holding the value.     *)
(***************************************************************************)
None == << >>
Some(x) == <<x>>

(***************************************************************************)
(* Tokens and string helpers                                               *)
(***************************************************************************)
SP == " "
NL == "\n"
Whitespace == {SP, NL}
THOUGHT_MARK == "Thought:"
ACTION_MARK == "Action:"
INPUT_MARK == "Action Input:"

Min(a, b) == IF a <= b THEN a ELSE b

\* str.strip(): drop the leading and trailing whitespace
RECURSIVE LStrip(_)
LStrip(s) ==
    IF s # << >> /\ Head(s) \in Whitespace THEN LStrip(Tail(s)) ELSE s

RECURSIVE RStrip(_)
RStrip(s) ==
    IF s # << >> /\ s[Len(s)] \in Whitespace
    THEN RStrip(SubSeq(s, 1, Len(s) - 1))
    ELSE s

Strip(s) == RStrip(LStrip(s))

\* str.startswith(marker)
StartsWith(s, mark) == s # << >> /\ Head(s) = mark

\* str.replace(marker, ''): every occurrence is removed
Remove(s, mark) == SelectSeq(s, LAMBDA t : t # mark)

\* '\n'.join(lines[i:])
RECURSIVE JoinLines(_, _)
JoinLines(lines, i) ==
    IF i > Len(lines) THEN << >>
    ELSE IF i = Len(lines) THEN lines[i]
    ELSE lines[i] \o <<NL>> \o JoinLines(lines, i + 1)

\* str.find('{') and str.rfind('}'), 1-based here, 0 when absent (-1 in Python)
Find(s, t) ==
    IF \E k \in 1..Len(s) : s[k] = t
    THEN CHOOSE k \in 1..Len(s) : s[k] = t /\ \A j \in 1..(k - 1) : s[j] # t
    ELSE 0

RFind(s, t) ==
    IF \E k \in 1..Len(s) : s[k] = t
    THEN CHOOSE k \in 1..Len(s) : s[k] = t /\ \A j \in (k + 1)..Len(s) : s[j] # t
    ELSE 0

(***************************************************************************)
(* JSON values and json.loads on token text                                *)
(***************************************************************************)
KV_ANSWER == "\"answer\": \"done\""
KV_QUERY == "\"query\": \"maternity\""
JSON_LIST == "[1]"
KVTokens == {KV_ANSWER, KV_QUERY}

KVPair(t) ==
    IF t = KV_ANSWER THEN <<"answer", <<"done">>>>
    ELSE <<"query", <<"maternity">>>>

Dict(items) == [type |-> "dict", items |-> items]
JsonList == [type |-> "list", items |-> {}]
EmptyDict == Dict({})

IsDict(v) == v.type = "dict"

\* dict.get(key, default)
DictGet(d, key, default) ==
    IF \E p \in d.items : p[1] = key
    THEN (CHOOSE p \in d.items : p[1] = key)[2]
    ELSE default

\* json.loads: whitespace between JSON tokens is insignificant; the text is
\* accepted when it is an object of at most one member or a list.
JsonLoads(s) ==
    LET t == SelectSeq(s, LAMBDA x : x \notin Whitespace)
    IN  IF t = <<"{", "}">> THEN [ok |-> TRUE, val |-> EmptyDict]
        ELSE IF Len(t) = 3 /\ t[1] = "{" /\ t[2] \in KVTokens /\ t[3] = "}"
             THEN [ok |-> TRUE, val |-> Dict({KVPair(t[2])})]
        ELSE IF t = <<JSON_LIST>> THEN [ok |-> TRUE, val |-> JsonList]
        ELSE [ok |-> FALSE, val |-> EmptyDict]

(***************************************************************************)
(* _parse_react_response                                                   *)
(***************************************************************************)
PLACEHOLDER_THOUGHT == <<"Continue with next step">>
FINISH == <<"finish">>
NO_ACTION_INPUT == Dict({<<"answer", <<"No clear action determined">>>>})

\* the 'Action Input:' branch of the loop body, for line i of lines
ParseActionInput(lines, i, line, cur) ==
    LET inline == Strip(Remove(line, INPUT_MARK))
        first  == JsonLoads(inline)
        json_str == Strip(Remove(JoinLines(lines, i), INPUT_MARK))
        start == Find(json_str, "{")
        end   == RFind(json_str, "}")
        span  == JsonLoads(SubSeq(json_str, start, end))
    IN  IF first.ok THEN first.val
        ELSE IF start >= 1 /\ end >= start
             THEN IF span.ok THEN span.val
                  ELSE Dict({<<"query", json_str>>})
             ELSE cur

\* one pass of the for loop over the lines, from line i on
RECURSIVE ParseLines(_, _, _)
ParseLines(lines, i, acc) ==
    IF i > Len(lines) THEN acc
    ELSE LET line == Strip(lines[i])
         IN  IF StartsWith(line, THOUGHT_MARK)
             THEN ParseLines(lines, i + 1,
                    [acc EXCEPT !.thought = Strip(Remove(line, THOUGHT_MARK))])
             ELSE IF StartsWith(line, ACTION_MARK)
             THEN ParseLines(lines, i + 1,
                    [acc EXCEPT !.action = Strip(Remove(line, ACTION_MARK))])
             ELSE IF StartsWith(line, INPUT_MARK)
             THEN ParseLines(lines, i + 1,
                    [acc EXCEPT !.action_input =
                        ParseActionInput(lines, i, line, acc.action_input)])
             ELSE ParseLines(lines, i + 1, acc)

_parse_react_response_nodefault(lines) ==
    LET raw == ParseLines(lines, 1,
                 [thought |-> << >>, action |-> << >>, action_input |-> EmptyDict])
        th  == IF raw.thought = << >> THEN PLACEHOLDER_THOUGHT ELSE raw.thought
    IN  [thought |-> th, action |-> raw.action, action_input |-> raw.action_input]

_parse_react_response(lines) ==
    LET raw == ParseLines(lines, 1,
                 [thought |-> << >>, action |-> << >>, action_input |-> EmptyDict])
        th  == IF raw.thought = << >> THEN PLACEHOLDER_THOUGHT ELSE raw.thought
    IN  IF raw.action = << >>
        THEN [thought |-> th, action |-> FINISH, action_input |-> NO_ACTION_INPUT]
        ELSE [thought |-> th, action |-> raw.action, action_input |-> raw.action_input]

(***************************************************************************)
(* Character lengths.  A message is a text with its length in characters.  *)
(***************************************************************************)
Msg(text, len) == [text |-> text, len |-> len]

TokLen(t) ==
    CASE t = "list_products" -> 13
      [] t = "premium_calculator" -> 18
      [] t = "policy_comparator" -> 17
      [] t = "document_retriever" -> 18
      [] t = "finish" -> 6
      [] t = "bogus_tool" -> 10
      [] OTHER -> 1

RECURSIVE StrLen(_)
StrLen(s) == IF s = << >> THEN 0 ELSE TokLen(Head(s)) + StrLen(Tail(s))

(***************************************************************************)
(* ReActStep, ReActTrace                                                   *)
(***************************************************************************)
ReActStep(n, type, content, tool_used, tool_input, tool_output) ==
    [step_number |-> n, step_type |-> type, content |-> content,
     tool_used |-> tool_used, tool_input |-> tool_input,
     tool_output |-> tool_output]

ReActTrace(maxIt) ==
    [steps |-> << >>, final_answer |-> None, success |-> FALSE,
     max_iterations |-> maxIt, current_iteration |-> 0]

ThoughtCount(steps) ==
    Cardinality({k \in 1..Len(steps) : steps[k].step_type = "thought"})

add_step(tr, step) ==
    LET s == Append(tr.steps, step)
    IN  [tr EXCEPT !.steps = s, !.current_iteration = ThoughtCount(s)]

(***************************************************************************)
(* Tool registry and _execute_action                                       *)
(***************************************************************************)
react_tools ==
    {"list_products", "premium_calculator", "policy_comparator",
     "document_retriever"}

Registered(action) == Len(action) = 1 /\ action[1] \in react_tools

\* what tool.execute can do: return a string, return a dict, or raise
ToolOutcomes ==
    { [kind |-> "str",   success |-> FALSE, msg |-> Msg("Premium calculated", 18)],
      [kind |-> "dict",  success |-> TRUE,  msg |-> Msg("data", 4)],
      [kind |-> "dict",  success |-> FALSE, msg |-> Msg("Tool execution failed", 21)],
      [kind |-> "raise", success |-> FALSE, msg |-> Msg("boom", 4)],
      [kind |-> "raise", success |-> FALSE, msg |-> Msg("long", LongMsgLen)] }

\* no tool is called for an action the registry does not hold
NoOutcome == [kind |-> "none", success |-> FALSE, msg |-> Msg("", 0)]

Observation(kind, action, msg) == [kind |-> kind, action |-> action, msg |-> msg]

_execute_action_generic(action, out) ==
    IF ~Registered(action)
    THEN Observation("unknown_action", action, Msg("Available tools", 82))
    ELSE IF out.kind = "raise"
         THEN Observation("error", action, out.msg)
    ELSE IF out.kind = "dict"
         THEN IF out.success
              THEN Observation("result", action, out.msg)
              ELSE Observation("error", action, out.msg)
    ELSE Observation("result", action, out.msg)

\* the observation _execute_action returns; out is what tool.execute did
_execute_action(action, out) ==
    IF ~Registered(action)
    THEN Observation("unknown_action", action, Msg("Available tools", 82))
    ELSE IF out.kind = "raise"
         THEN Observation("exec_error", action, out.msg)
    ELSE IF out.kind = "dict"
         THEN IF out.success
              THEN Observation("result", action, out.msg)
              ELSE Observation("error", action, out.msg)
    ELSE Observation("result", action, out.msg)

\* len(str(observation))
ObsLen(obs) ==
    CASE obs.kind = "unknown_action" -> 23 + StrLen(obs.action) + 20 + obs.msg.len
      [] obs.kind = "exec_error" -> 16 + StrLen(obs.action) + 2 + obs.msg.len
      [] obs.kind = "error" -> 7 + obs.msg.len
      [] OTHER -> obs.msg.len

ContentMax == 500
\* str(observation)[:n]: the text, cut when it is longer than n characters
Truncate(obs, n) == [text |-> obs, len |-> Min(ObsLen(obs), n), cut |-> ObsLen(obs) > n]

(***************************************************************************)
(* ReActAgent.run                                                          *)
(***************************************************************************)
MAX_ITER_MSG == <<"Maximum reasoning iterations reached. Could not complete task.">>
ERROR_PREFIX == "Error during reasoning: "
ATTRIBUTE_ERROR == Msg("'list' object has no attribute 'get'", 36)
LLM_ERROR == Msg("Connection error.", 17)

\* the reasoner's responses a run draws from: the three-line convention, with
\* the Thought, the Action or the Action Input left out or malformed
ThoughtLine == <<THOUGHT_MARK, SP, "think">>
ActionLine(name) == <<ACTION_MARK, SP, name>>
InputLine(body) == <<INPUT_MARK, SP>> \o body
ActionNames == react_tools \cup {"finish", "bogus_tool"}
InputBodies == {<<"{", KV_ANSWER, "}">>, <<"{", KV_QUERY, "}">>, <<JSON_LIST>>}

RunResponses ==
    {<<ThoughtLine, ActionLine(a), InputLine(<<"{", KV_QUERY, "}">>)>> :
        a \in ActionNames \ {"finish"}}
    \cup {<<ThoughtLine, ActionLine("finish"), InputLine(b)>> : b \in InputBodies}
    \cup {<<ThoughtLine, ActionLine(a), InputLine(<<JSON_LIST>>)>> :
             a \in {"premium_calculator", "bogus_tool"}}
    \cup {<<ThoughtLine, ActionLine("finish")>>,
          <<ThoughtLine>>,
          <<ThoughtLine, <<ACTION_MARK>>, InputLine(<<JSON_LIST>>)>>,
          << << >> >>,
          <<ActionLine("bogus_tool")>>,
          <<ActionLine("finish"), InputLine(<<"{", KV_ANSWER, "}">>)>>}

ExceptHandler_raw(tr, e) ==
    [tr EXCEPT !.final_answer = Some(<<e.text>>), !.success = FALSE]

\* except Exception as e (lines 218-221)
ExceptHandler(tr, e) ==
    [tr EXCEPT !.final_answer = Some(<<ERROR_PREFIX, e.text>>), !.success = FALSE]

MaxIterationsCheck_gt(tr, maxIt) ==
    IF tr.current_iteration > maxIt /\ ~tr.success
    THEN [tr EXCEPT !.final_answer = Some(MAX_ITER_MSG), !.success = FALSE]
    ELSE tr

MaxIterationsCheck_always(tr, maxIt) ==
    IF tr.current_iteration >= maxIt
    THEN [tr EXCEPT !.final_answer = Some(MAX_ITER_MSG), !.success = FALSE]
    ELSE tr

\* "Check if max iterations reached" (lines 213-216)
MaxIterationsCheck(tr, maxIt) ==
    IF tr.current_iteration >= maxIt /\ ~tr.success
    THEN [tr EXCEPT !.final_answer = Some(MAX_ITER_MSG), !.success = FALSE]
    ELSE tr

\* trace.add_step of the Thought (lines 170-174)
AddThought(tr, thought) ==
    add_step(tr, ReActStep(tr.current_iteration, "thought", thought, None, None, None))

Finish_unflagged(tr, action_input) ==
    LET answer == DictGet(action_input, "answer", << >>)
        t1 == [tr EXCEPT !.final_answer = Some(answer)]
    IN  add_step(t1, ReActStep(t1.current_iteration, "final_answer", answer,
                               Some(FINISH), None, None))

\* the 'finish' branch (lines 179-189), for a dict action input
Finish(tr, action_input) ==
    LET answer == DictGet(action_input, "answer", << >>)
        t1 == [tr EXCEPT !.final_answer = Some(answer), !.success = TRUE]
    IN  add_step(t1, ReActStep(t1.current_iteration, "final_answer", answer,
                               Some(FINISH), None, None))

AddActionObservation_swap(tr, action, action_input, obs) ==
    LET t1 == add_step(tr, ReActStep(tr.current_iteration, "observation",
                  Truncate(obs, ContentMax), None, None, Some(obs)))
    IN  add_step(t1, ReActStep(t1.current_iteration, "action",
                  [action |-> action, action_input |-> action_input],
                  Some(action), Some(action_input), None))

\* the two add_step calls after _execute_action (lines 195-208)
AddActionObservation(tr, action, action_input, obs) ==
    LET t1 == add_step(tr, ReActStep(tr.current_iteration, "action",
                  [action |-> action, action_input |-> action_input],
                  Some(action), Some(action_input), None))
    IN  add_step(t1, ReActStep(t1.current_iteration, "observation",
                  Truncate(obs, ContentMax), None, None, Some(obs)))

LoopCondition_le(tr, maxIt) == tr.current_iteration <= maxIt

\* while trace.current_iteration < max_iterations (line 165)
LoopCondition(tr, maxIt) == tr.current_iteration < maxIt

\* the two requests the concurrency check lets run side by side
Requests == {1, 2}

\* a request that has not entered tool.execute
IdleThread == [pc |-> "new", tool |-> "", reg |-> 0, calls |-> 0]

\* no reset, no concurrent request, no calculator call
OthersIdle ==
    /\ reset_result = None
    /\ serialized = TRUE
    /\ threads = [r \in Requests |-> IdleThread]
    /\ executes = [t \in react_tools |-> 0]
    /\ args = None
    /\ ret = None
    /\ retriever = None
    /\ memory = None

Init ==
    /\ pc = "loop"
    /\ max_iterations \in 0..MaxIter
    /\ trace = ReActTrace(max_iterations)
    /\ pending = None
    /\ response = None
    /\ llm_calls = 0
    /\ usage_count = [t \in react_tools |-> 0]
    /\ tool_outcome = None
    /\ reasoning_history = << >>
    /\ result = None
    /\ parsed = None
    /\ OthersIdle

\* self.llm.invoke raises inside _generate_step: run()'s except clause
ThinkRaises ==
    /\ pc = "loop"
    /\ LoopCondition(trace, max_iterations)
    /\ llm_calls' = llm_calls + 1
    /\ trace' = ExceptHandler(trace, LLM_ERROR)
    /\ pc' = "return"
    /\ UNCHANGED <<max_iterations, pending, response, usage_count,
                   tool_outcome, reasoning_history, result, parsed>>
    /\ UNCHANGED others

\* one pass of the loop head: _generate_step, the Thought step and the
\* 'finish' check (lines 165-189), then lines 213-221 when the loop ends
ThinkOn(responses) ==
    /\ pc = "loop"
    /\ LoopCondition(trace, max_iterations)
    /\ \E r \in responses :
        LET p  == _parse_react_response(r)
            t1 == AddThought(trace, p.thought)
        IN  /\ response' = Some(r)
            /\ llm_calls' = llm_calls + 1
            /\ IF p.action = FINISH
               THEN /\ trace' = IF IsDict(p.action_input)
                                THEN MaxIterationsCheck(Finish(t1, p.action_input),
                                                        max_iterations)
                                ELSE ExceptHandler(t1, ATTRIBUTE_ERROR)
                    /\ pending' = None
                    /\ pc' = "return"
               ELSE /\ trace' = t1
                    /\ pending' = Some([action |-> p.action,
                                        action_input |-> p.action_input])
                    /\ pc' = "act"
    /\ UNCHANGED <<max_iterations, usage_count, tool_outcome, reasoning_history,
                   result, parsed>>
    /\ UNCHANGED others

Think == ThinkOn(RunResponses)

ActOn_counting_successes(outcomes) ==
    /\ pc = "act"
    /\ LET a == pending[1].action
           inp == pending[1].action_input
       IN  \/ /\ ~Registered(a)
               /\ usage_count' = usage_count
               /\ tool_outcome' = tool_outcome
               /\ trace' = AddActionObservation(trace, a, inp,
                                                _execute_action(a, NoOutcome))
           \/ /\ Registered(a)
               /\ \E out \in outcomes :
                    /\ usage_count' = IF out.kind = "raise" THEN usage_count
                                      ELSE [usage_count EXCEPT ![a[1]] = @ + 1]
                    /\ tool_outcome' = Some(out)
                    /\ trace' = AddActionObservation(trace, a, inp,
                                                     _execute_action(a, out))
    /\ pending' = None
    /\ pc' = "loop"
    /\ UNCHANGED <<max_iterations, response, llm_calls, reasoning_history,
                   result, parsed>>
    /\ UNCHANGED others

\* _execute_action and the Action and Observation steps (lines 192-210);
\* tool.execute adds one to the tool's usage_count before anything else
ActOn(outcomes) ==
    /\ pc = "act"
    /\ LET a == pending[1].action
           inp == pending[1].action_input
       IN  \/ /\ ~Registered(a)
               /\ usage_count' = usage_count
               /\ tool_outcome' = tool_outcome
               /\ trace' = AddActionObservation(trace, a, inp,
                                                _execute_action(a, NoOutcome))
           \/ /\ Registered(a)
               /\ \E out \in outcomes :
                    /\ usage_count' = [usage_count EXCEPT ![a[1]] = @ + 1]
                    /\ tool_outcome' = Some(out)
                    /\ trace' = AddActionObservation(trace, a, inp,
                                                     _execute_action(a, out))
    /\ pending' = None
    /\ pc' = "loop"
    /\ UNCHANGED <<max_iterations, response, llm_calls, reasoning_history,
                   result, parsed>>
    /\ UNCHANGED others

Act == ActOn(ToolOutcomes)

\* the while condition fails: lines 213-216
LoopExit ==
    /\ pc = "loop"
    /\ ~LoopCondition(trace, max_iterations)
    /\ trace' = MaxIterationsCheck(trace, max_iterations)
    /\ pc' = "return"
    /\ UNCHANGED <<max_iterations, pending, response, llm_calls, usage_count,
                   tool_outcome, reasoning_history, result, parsed>>
    /\ UNCHANGED others

\* ReActStep.to_dict, ReActTrace.to_dict
OutputMax == 200
StepToDict(st) ==
    [step_number |-> st.step_number, step_type |-> st.step_type,
     content |-> st.content, tool_used |-> st.tool_used,
     tool_input |-> st.tool_input,
     tool_output |-> IF st.tool_output = None THEN None
                     ELSE Some(Truncate(st.tool_output[1], OutputMax))]

TraceToDict(tr) ==
    [steps |-> [k \in 1..Len(tr.steps) |-> StepToDict(tr.steps[k])],
     final_answer |-> tr.final_answer, success |-> tr.success,
     iterations |-> tr.current_iteration, max_iterations |-> tr.max_iterations]

ToolsUsed(tr) ==
    {tr.steps[k].tool_used[1] :
        k \in {j \in 1..Len(tr.steps) :
                 /\ tr.steps[j].tool_used # None
                 /\ tr.steps[j].tool_used[1] # << >>
                 /\ tr.steps[j].tool_used[1] # FINISH}}

\* "Store trace" and "Return result" (lines 223-234)
Return ==
    /\ pc = "return"
    /\ reasoning_history' = Append(reasoning_history, trace)
    /\ result' = Some([reasoning_trace |-> TraceToDict(trace),
                       final_answer |-> trace.final_answer,
                       success |-> trace.success,
                       iterations |-> trace.current_iteration,
                       tools_used |-> ToolsUsed(trace)])
    /\ pc' = "done"
    /\ UNCHANGED <<max_iterations, trace, pending, response, llm_calls,
                   usage_count, tool_outcome, parsed>>
    /\ UNCHANGED others

Next == Think \/ ThinkRaises \/ Act \/ LoopExit \/ Return

Spec == Init /\ [][Next]_vars

(***************************************************************************)
(* _parse_react_response on its own: every response of at most MaxLines    *)
(* lines built from the lines below is parsed once.                        *)
(***************************************************************************)
ParseLineSet ==
    { ThoughtLine,
      <<THOUGHT_MARK>>,
      <<SP, THOUGHT_MARK, SP, "think", SP>>,
      ActionLine("finish"),
      ActionLine("premium_calculator"),
      ActionLine("bogus_tool"),
      <<ACTION_MARK, SP>>,
      InputLine(<<"{", KV_ANSWER, "}">>),
      InputLine(<<JSON_LIST>>),
      InputLine(<<"maternity">>),
      InputLine(<<"{", "maternity", "}">>),
      InputLine(<<"}", "maternity", "{">>),
      InputLine(<<"{">>),
      <<INPUT_MARK>>,
      <<"{", KV_QUERY>>,
      <<KV_QUERY>>,
      <<"}">>,
      << >> }

RECURSIVE SeqsUpTo(_, _)
SeqsUpTo(S, n) ==
    IF n = 0 THEN {<< >>}
    ELSE LET shorter == SeqsUpTo(S, n - 1)
         IN  shorter \cup {Append(q, x) : q \in shorter, x \in S}

ParseResponses == SeqsUpTo(ParseLineSet, MaxLines) \ {<< >>}

ParseInit ==
    /\ pc = "parse"
    /\ response \in {Some(r) : r \in ParseResponses}
    /\ parsed = None
    /\ max_iterations = 0
    /\ trace = ReActTrace(0)
    /\ pending = None
    /\ llm_calls = 0
    /\ usage_count = [t \in react_tools |-> 0]
    /\ tool_outcome = None
    /\ reasoning_history = << >>
    /\ result = None
    /\ OthersIdle

ParseStep ==
    /\ pc = "parse"
    /\ parsed' = Some(_parse_react_response(response[1]))
    /\ pc' = "parsed"
    /\ UNCHANGED <<max_iterations, trace, pending, response, llm_calls,
                   usage_count, tool_outcome, reasoning_history, result>>
    /\ UNCHANGED others

ParseSpec == ParseInit /\ [][ParseStep]_vars

(***************************************************************************)
(* Properties of run()                                                     *)
(***************************************************************************)
Last(s) == s[Len(s)]
StepCount(steps, type) ==
    Cardinality({k \in 1..Len(steps) : steps[k].step_type = type})

\* a final answer that begins with 'Error during reasoning: '
IsErrorAnswer(fa) ==
    fa # None /\ Len(fa[1]) > 0 /\ fa[1][1] = ERROR_PREFIX

\* the reasoner raised: a call that left no Thought step
ReasonerRaised == llm_calls > ThoughtCount(trace.steps)
\* no parsed action was 'finish': every Thought was followed by an Action step
NeverFinish ==
    \A k \in 1..Len(trace.steps) :
        trace.steps[k].step_type = "thought"
            => k < Len(trace.steps) /\ trace.steps[k + 1].step_type = "action"

\* a step of run() in which the reasoner answered (a Thought was recorded)
ThoughtRecorded ==
    llm_calls' = llm_calls + 1 /\ Len(trace'.steps) > Len(trace.steps)
\* a step of run() in which the reasoner call raised
ReasonerRaises ==
    llm_calls' = llm_calls + 1 /\ trace'.steps = trace.steps

\* a bound on the steps run() still has to take: every step lowers it
Rank ==
    4 * (max_iterations - trace.current_iteration)
      + (CASE pc = "act" -> 5 [] pc = "loop" -> 3 [] pc = "return" -> 1 [] OTHER -> 0)

\* C1: run() terminates (every step lowers Rank, which never falls below 0,
\* and a step is possible until run() has returned), it calls the reasoner at
\* most max_iterations times, and when the reasoner never raises and no
\* parsed action is 'finish' it ends after exactly max_iterations Thought
\* steps with success=False and the fixed max-iterations answer.
C1_RunTerminates ==
    /\ [](llm_calls <= max_iterations)
    /\ [](Rank >= 0 /\ (pc # "done" => ENABLED Next))
    /\ [][Rank' < Rank]_vars
    /\ [](pc = "done" /\ NeverFinish /\ ~ReasonerRaised
            => /\ ThoughtCount(trace.steps) = max_iterations
               /\ llm_calls = max_iterations
               /\ result[1].iterations = max_iterations
               /\ result[1].success = FALSE
               /\ result[1].final_answer = Some(MAX_ITER_MSG))

C1_Witness ==
    /\ pc = "done" /\ max_iterations >= 2
    /\ NeverFinish /\ ~ReasonerRaised
    /\ result[1].final_answer = Some(MAX_ITER_MSG)

\* C2: when the action parsed at iteration i is 'finish' with a dict input,
\* run() stops at once: nothing is dispatched, the reasoner is not called
\* again, success=True, final_answer is the 'answer' value ('' without the
\* key), iterations = i, and the max-iterations answer is not substituted.
C2_FinishStopsAtOnce ==
    /\ [][ThoughtRecorded
            /\ _parse_react_response(response'[1]).action = FINISH
            /\ IsDict(_parse_react_response(response'[1]).action_input)
          => /\ pc' = "return" /\ pending' = None
             /\ usage_count' = usage_count
             /\ StepCount(trace'.steps, "action") = StepCount(trace.steps, "action")
             /\ trace'.success
             /\ trace'.final_answer =
                  Some(DictGet(_parse_react_response(response'[1]).action_input,
                               "answer", << >>))
             /\ trace'.current_iteration = llm_calls'
             /\ llm_calls' <= max_iterations]_vars
    /\ [][pc = "return"
          => /\ pc' = "done" /\ llm_calls' = llm_calls
             /\ usage_count' = usage_count /\ trace' = trace
             /\ result'[1].success = trace.success
             /\ result'[1].final_answer = trace.final_answer
             /\ result'[1].iterations = trace.current_iteration]_vars
    /\ [][pc = "done" => UNCHANGED vars]_vars

C2_Witness ==
    /\ pc = "done" /\ max_iterations >= 2
    /\ result[1].success /\ result[1].iterations = max_iterations
    /\ result[1].final_answer = Some(<< >>)

\* C3 as stated: a raising tool leaves an Observation step whose content is
\* the whole string 'Error executing <tool>: <message>'.
C3_ContentIsWholeError ==
    \A k \in 1..Len(trace.steps) :
        /\ trace.steps[k].step_type = "observation"
        /\ trace.steps[k].tool_output[1].kind = "exec_error"
        => /\ trace.steps[k].content.text = trace.steps[k].tool_output[1]
           /\ ~trace.steps[k].content.cut

\* C3 (amended): when a registered tool's execute raises, run() does not
\* fail: the Action step is followed by an Observation step whose
\* tool_output is 'Error executing <tool>: <message>' and whose content is
\* the first 500 characters of that string, and the loop is back at its head,
\* where the next reasoner call is made while the cap is not reached.
C3_ToolErrorObserved ==
    /\ [][pc = "act" /\ tool_outcome' # tool_outcome
                     /\ tool_outcome'[1].kind = "raise"
          => LET tool == pending[1].action
                 obs  == Last(trace'.steps)
                 full == 16 + StrLen(tool) + 2 + tool_outcome'[1].msg.len
             IN  /\ pc' = "loop"
                 /\ trace'.final_answer = None
                 /\ Len(trace'.steps) = Len(trace.steps) + 2
                 /\ trace'.steps[Len(trace.steps) + 1].step_type = "action"
                 /\ trace'.steps[Len(trace.steps) + 1].tool_used = Some(tool)
                 /\ obs.step_type = "observation"
                 /\ obs.tool_output =
                      Some([kind |-> "exec_error", action |-> tool,
                            msg |-> tool_outcome'[1].msg])
                 /\ obs.content.text = obs.tool_output[1]
                 /\ obs.content.len = Min(full, 500)
                 /\ obs.content.cut = (full > 500)]_vars
    /\ [][pc = "act" => pc' = "loop"]_vars
    /\ []((/\ pc = "loop" /\ trace.steps # << >>
           /\ Last(trace.steps).step_type = "observation"
           /\ Last(trace.steps).tool_output[1].kind = "exec_error"
           /\ trace.current_iteration < max_iterations)
          => ENABLED Think)

C3_Witness ==
    /\ pc = "act" /\ Len(trace.steps) >= 4
    /\ tool_outcome # None /\ tool_outcome[1].kind = "raise"
    /\ Last(trace.steps).step_type = "thought"
    /\ trace.steps[Len(trace.steps) - 1].step_type = "observation"
    /\ trace.steps[Len(trace.steps) - 1].tool_output[1].kind = "exec_error"
    /\ trace.steps[Len(trace.steps) - 1].content.cut

\* C4 as stated: a parsed Action Input that is valid JSON and not an object
\* never aborts the run, whatever the action name, 'finish' included: the
\* iteration goes on to an Observation.
C4_NonDictInputObserved ==
    [][ThoughtRecorded
         /\ ~IsDict(_parse_react_response(response'[1]).action_input)
       => /\ pc' = "act"
          /\ trace'.final_answer = None]_vars

\* C5: when the reasoner call raises, or code outside the tool try/except
\* does (the 'finish' branch on a non-dict input), run() still returns a
\* result: success=False, final_answer begins with 'Error during
\* reasoning: ', and the steps recorded before the failure are kept.
C5_ErrorsReturned ==
    /\ [][pc = "loop"
            /\ \/ ReasonerRaises
               \/ /\ ThoughtRecorded
                  /\ _parse_react_response(response'[1]).action = FINISH
                  /\ ~IsDict(_parse_react_response(response'[1]).action_input)
          => /\ pc' = "return"
             /\ ~trace'.success
             /\ trace'.final_answer # None
             /\ Len(trace'.final_answer[1]) > 0
             /\ trace'.final_answer[1][1] = ERROR_PREFIX
             /\ Len(trace'.steps) >= Len(trace.steps)
             /\ SubSeq(trace'.steps, 1, Len(trace.steps)) = trace.steps]_vars
    /\ [][pc = "return"
          => /\ pc' = "done"
             /\ result' # None
             /\ result'[1].success = trace.success
             /\ result'[1].final_answer = trace.final_answer
             /\ Len(result'[1].reasoning_trace.steps) = Len(trace.steps)
             /\ \A k \in 1..Len(trace.steps) :
                  /\ result'[1].reasoning_trace.steps[k].step_type
                       = trace.steps[k].step_type
                  /\ result'[1].reasoning_trace.steps[k].content
                       = trace.steps[k].content]_vars

C5_Witness ==
    /\ pc = "done"
    /\ ReasonerRaised
    /\ ~result[1].success
    /\ IsErrorAnswer(result[1].final_answer)
    /\ Len(result[1].reasoning_trace.steps) >= 3

\* the step kinds of a trace, and its split into Thought, Action, Observation
\* triples and a rest
Kinds(steps) == [k \in 1..Len(steps) |-> steps[k].step_type]
IsTriples(kinds, n) ==
    \A j \in 0..(n - 1) :
        /\ kinds[3 * j + 1] = "thought"
        /\ kinds[3 * j + 2] = "action"
        /\ kinds[3 * j + 3] = "observation"
TriplesThen(kinds, rest) ==
    \E n \in 0..(Len(kinds) \div 3) :
        /\ IsTriples(kinds, n)
        /\ SubSeq(kinds, 3 * n + 1, Len(kinds)) = rest

Finished ==
    trace.success /\ TriplesThen(Kinds(trace.steps), <<"thought", "final_answer">>)
MaxIterationsReached ==
    /\ ~trace.success /\ trace.final_answer = Some(MAX_ITER_MSG)
    /\ trace.current_iteration >= max_iterations
    /\ TriplesThen(Kinds(trace.steps), << >>)
Errored ==
    /\ ~trace.success /\ IsErrorAnswer(trace.final_answer)
    /\ \/ TriplesThen(Kinds(trace.steps), << >>)
       \/ TriplesThen(Kinds(trace.steps), <<"thought">>)

\* C6: the step kinds of every trace are (Thought, Action, Observation)*
\* followed by nothing, by a lone Thought, or by Thought, FinalAnswer; every
\* Action step has a Thought before it and an Observation after it; and a
\* run that has ended is in exactly one of Finished, MaxIterationsReached,
\* Errored.
C6_StateMachine ==
    /\ pc = "loop" => TriplesThen(Kinds(trace.steps), << >>)
    /\ pc = "act" => TriplesThen(Kinds(trace.steps), <<"thought">>)
    /\ pc \in {"loop", "act"} => trace.final_answer = None /\ ~trace.success
    /\ pc \in {"loop", "return", "done"} =>
         \A k \in 1..Len(trace.steps) :
            trace.steps[k].step_type = "action"
               => /\ k > 1 /\ trace.steps[k - 1].step_type = "thought"
                  /\ k < Len(trace.steps)
                  /\ trace.steps[k + 1].step_type = "observation"
    /\ pc \in {"return", "done"} =>
         /\ Finished \/ MaxIterationsReached \/ Errored
         /\ ~(Finished /\ MaxIterationsReached)
         /\ ~(Finished /\ Errored)
         /\ ~(MaxIterationsReached /\ Errored)

C6_Witness ==
    /\ pc = "done" /\ Errored
    /\ Len(trace.steps) = 4
    /\ Last(trace.steps).step_type = "thought"

\* C7: a trace holds at most one FinalAnswer step, which is its last step;
\* nothing is appended after it; and success is True exactly when the trace
\* ends with a FinalAnswer step.
C7_FinalAnswerTerminal ==
    /\ [](/\ StepCount(trace.steps, "final_answer") <= 1
          /\ \A k \in 1..Len(trace.steps) :
                trace.steps[k].step_type = "final_answer" => k = Len(trace.steps)
          /\ trace.success <=>
                /\ trace.steps # << >>
                /\ Last(trace.steps).step_type = "final_answer"
          /\ pc = "done" => result[1].success = trace.success)
    /\ [][trace.steps # << >> /\ Last(trace.steps).step_type = "final_answer"
          => trace'.steps = trace.steps]_vars

C7_Witness ==
    /\ pc = "done" /\ result[1].success
    /\ Len(trace.steps) >= 5
    /\ Last(trace.steps).step_type = "final_answer"

\* C8: step numbers never decrease along a trace, and the iterations value
\* equals the number of Thought steps and never exceeds max_iterations.
C8_IndicesAndIterations ==
    /\ \A k \in 1..(Len(trace.steps) - 1) :
          trace.steps[k].step_number <= trace.steps[k + 1].step_number
    /\ trace.current_iteration = StepCount(trace.steps, "thought")
    /\ trace.current_iteration <= max_iterations
    /\ pc = "done" =>
          /\ result[1].iterations = StepCount(trace.steps, "thought")
          /\ result[1].reasoning_trace.iterations = result[1].iterations
          /\ result[1].iterations <= max_iterations

C8_Witness ==
    /\ pc = "done" /\ max_iterations >= 2
    /\ result[1].iterations = max_iterations
    /\ Len(trace.steps) >= 6
    /\ trace.steps[1].step_number < Last(trace.steps).step_number

\* the last line of response r that starts with the marker (0 without one),
\* and the text that line gives after the marker
LastLineWith(r, mark) ==
    IF \E i \in 1..Len(r) : StartsWith(Strip(r[i]), mark)
    THEN CHOOSE i \in 1..Len(r) :
            /\ StartsWith(Strip(r[i]), mark)
            /\ \A j \in (i + 1)..Len(r) : ~StartsWith(Strip(r[j]), mark)
    ELSE 0
TextAfter(r, mark) ==
    IF LastLineWith(r, mark) = 0 THEN << >>
    ELSE Strip(Remove(Strip(r[LastLineWith(r, mark)]), mark))
NamesKnownAction(r) ==
    TextAfter(r, ACTION_MARK) \in {<<t>> : t \in react_tools \cup {"finish"}}

NoClearAction == Some(<<"No clear action determined">>)
EndsFinishedWith(tr, answer) ==
    /\ tr.success /\ tr.final_answer = answer
    /\ Last(tr.steps).step_type = "final_answer"

\* C9 as stated: a response without a 'Thought:' line gives the placeholder
\* thought, and a response whose 'Action:' is missing or names no recognized
\* tool gives 'finish' with the 'No clear action determined' answer, so the
\* run ends Finished with nothing dispatched.
C9_UnrecognizedActionFinishes ==
    [][ThoughtRecorded
       => /\ LastLineWith(response'[1], THOUGHT_MARK) = 0
               => trace'.steps[Len(trace.steps) + 1].content = PLACEHOLDER_THOUGHT
          /\ ~NamesKnownAction(response'[1])
               => /\ pc' = "return" /\ pending' = None
                  /\ EndsFinishedWith(trace', NoClearAction)]_vars

\* C9 (amended): a response without a 'Thought:' line gives the placeholder
\* thought; a response whose 'Action:' is missing or empty gives 'finish'
\* with the 'No clear action determined' answer, so the run ends Finished
\* with nothing dispatched; a response naming an action that is no
\* registered tool keeps that name: no tool is called, the iteration records
\* an 'Unknown action' Observation and the loop goes on.
C9_ParsingDefaults ==
    /\ [][ThoughtRecorded
          => /\ LastLineWith(response'[1], THOUGHT_MARK) = 0
                  => trace'.steps[Len(trace.steps) + 1].content = PLACEHOLDER_THOUGHT
             /\ TextAfter(response'[1], ACTION_MARK) = << >>
                  => /\ pc' = "return" /\ pending' = None
                     /\ usage_count' = usage_count
                     /\ Len(trace'.steps) = Len(trace.steps) + 2
                     /\ EndsFinishedWith(trace', NoClearAction)
             /\ (TextAfter(response'[1], ACTION_MARK) # << >>
                   /\ ~NamesKnownAction(response'[1]))
                  => /\ pc' = "act"
                     /\ pending'[1].action = TextAfter(response'[1], ACTION_MARK)
                     /\ ~Registered(pending'[1].action)
                     /\ trace'.final_answer = None]_vars
    /\ [][pc = "act" /\ ~Registered(pending[1].action)
          => /\ pc' = "loop"
             /\ usage_count' = usage_count /\ tool_outcome' = tool_outcome
             /\ Last(trace'.steps).step_type = "observation"
             /\ Last(trace'.steps).tool_output[1].kind = "unknown_action"
             /\ Last(trace'.steps).tool_output[1].action = pending[1].action]_vars

C9_Witness ==
    /\ pc = "done" /\ response # None /\ Len(trace.steps) >= 2
    /\ LastLineWith(response[1], THOUGHT_MARK) = 0
    /\ TextAfter(response[1], ACTION_MARK) = << >>
    /\ EndsFinishedWith(trace, NoClearAction)
    /\ trace.steps[Len(trace.steps) - 1].content = PLACEHOLDER_THOUGHT
    /\ \E k \in 1..Len(trace.steps) :
          /\ trace.steps[k].step_type = "observation"
          /\ trace.steps[k].tool_output[1].kind = "unknown_action"

\* the lines of response r that start with 'Action Input:'
InputLines(r) == {i \in 1..Len(r) : StartsWith(Strip(r[i]), INPUT_MARK)}

\* the fallback order of C10 for the Action Input line i of r: inline JSON,
\* else the first '{' to last '}' span of the line and the following ones,
\* else the raw text wrapped as {"query": <text>}
FallbackInput(r, i) ==
    LET inline == JsonLoads(Strip(Remove(Strip(r[i]), INPUT_MARK)))
        text   == Strip(Remove(JoinLines(r, i), INPUT_MARK))
        hasSpan == Find(text, "{") >= 1 /\ RFind(text, "}") >= Find(text, "{")
        span   == JsonLoads(SubSeq(text, Find(text, "{"), RFind(text, "}")))
    IN  IF inline.ok THEN inline.val
        ELSE IF hasSpan /\ span.ok THEN span.val
        ELSE Dict({<<"query", text>>})

\* C10 as stated: for a response with one 'Action Input:' line and an action,
\* the parsed action input is the inline JSON, else the JSON of the '{...}'
\* span, and whenever neither parses (no span at all included) the raw text
\* wrapped as {"query": <text>}.
C10_InputFallbackOrder ==
    /\ pc = "parsed"
    /\ Cardinality(InputLines(response[1])) = 1
    /\ TextAfter(response[1], ACTION_MARK) # << >>
    => parsed[1].action_input =
          FallbackInput(response[1], CHOOSE i \in InputLines(response[1]) : TRUE)

(***************************************************************************)
(* AgenticSystem (agentic_system.py): process_query after process_query on *)
(* the one ReActAgent and the one tool registry, and reset_stats between   *)
(* queries.                                                                *)
(***************************************************************************)
\* stands for the max_iterations=10 process_query passes to run()
SysMaxIter == 1
\* queries handled in one behaviour
MaxQueries == 2

\* the reasoner's answers while a query is processed
SysResponses ==
    {<<ThoughtLine, ActionLine(a), InputLine(<<"{", KV_QUERY, "}">>)>> :
        a \in {"premium_calculator", "document_retriever", "bogus_tool"}}
    \cup {<<ThoughtLine, ActionLine("finish"), InputLine(<<"{", KV_ANSWER, "}">>)>>}

\* a tool returns its text, or comes back with an error
SysOutcomes ==
    { [kind |-> "str",   success |-> FALSE, msg |-> Msg("Premium calculated", 18)],
      [kind |-> "raise", success |-> FALSE, msg |-> Msg("boom", 4)] }

\* what class ReActAgent defines
ReActAgentMethods ==
    {"__init__", "run", "_generate_step", "_parse_react_response",
     "_execute_action", "get_stats"}

NO_RESET_STATS == Msg("'ReActAgent' object has no attribute 'reset_stats'", 50)
RESET_MESSAGE == Msg("Statistics reset successfully", 29)

SysInit ==
    /\ pc = "idle"
    /\ max_iterations = SysMaxIter
    /\ trace = ReActTrace(SysMaxIter)
    /\ pending = None
    /\ response = None
    /\ llm_calls = 0
    /\ usage_count = [t \in react_tools |-> 0]
    /\ tool_outcome = None
    /\ reasoning_history = << >>
    /\ result = None
    /\ parsed = None
    /\ OthersIdle

\* process_query enters ReActAgent.run, which builds the trace of the query
process_query ==
    /\ pc \in {"idle", "done"}
    /\ Len(reasoning_history) < MaxQueries
    /\ pc' = "loop"
    /\ max_iterations' = SysMaxIter
    /\ trace' = ReActTrace(SysMaxIter)
    /\ pending' = None
    /\ response' = None
    /\ llm_calls' = 0
    /\ result' = None
    /\ UNCHANGED <<usage_count, tool_outcome, reasoning_history, parsed>>
    /\ UNCHANGED others

\* AgenticSystem.reset_stats: its first call, self.react_agent.reset_stats(),
\* names a method ReActAgent does not define, so the AttributeError leaves
\* reset_stats before the loop over the tools is reached
reset_stats ==
    /\ pc \in {"idle", "done"}
    /\ "reset_stats" \notin ReActAgentMethods
    /\ reset_result' = Some([kind |-> "raise", msg |-> NO_RESET_STATS])
    /\ UNCHANGED <<pc, max_iterations, trace, pending, response, llm_calls,
                   usage_count, tool_outcome, reasoning_history, result, parsed>>
    /\ UNCHANGED <<serialized, threads, executes, args, ret, retriever, memory>>

SysThink == ThinkOn(SysResponses)
SysAct == ActOn(SysOutcomes)

SysNext ==
    \/ process_query \/ reset_stats
    \/ SysThink \/ ThinkRaises \/ SysAct \/ LoopExit \/ Return

SysSpec == SysInit /\ [][SysNext]_vars

\* the Action steps of trace tr that name tool t
ActionSteps(tr, t) ==
    Cardinality({k \in 1..Len(tr.steps) :
                    /\ tr.steps[k].step_type = "action"
                    /\ tr.steps[k].tool_used = Some(<<t>>)})

RECURSIVE SumOver(_, _)
SumOver(f, S) ==
    IF S = {} THEN 0
    ELSE LET x == CHOOSE y \in S : TRUE IN f[x] + SumOver(f, S \ {x})

\* ReActAgent.get_stats: the queries stored, those that succeeded, those whose
\* iteration count reached the cap and, per tool, the steps that carry it as
\* tool_used ('finish' left out); without stored queries the dict returned
\* has neither successful_queries nor max_iterations_reached
get_stats(history) ==
    [total_queries |-> Len(history),
     successful_queries |->
        IF history = << >> THEN None
        ELSE Some(Cardinality({k \in 1..Len(history) : history[k].success})),
     max_iterations_reached |->
        IF history = << >> THEN None
        ELSE Some(Cardinality({k \in 1..Len(history) :
                history[k].current_iteration >= history[k].max_iterations})),
     tools_usage |->
        [t \in react_tools |->
            SumOver([k \in 1..Len(history) |->
                        Cardinality({j \in 1..Len(history[k].steps) :
                            history[k].steps[j].tool_used = Some(<<t>>)})],
                    1..Len(history))]]

\* the Action steps naming tool t across the stored traces
ActionStepsStored(t) ==
    SumOver([k \in 1..Len(reasoning_history) |->
                ActionSteps(reasoning_history[k], t)],
            1..Len(reasoning_history))

\* the step being taken is a tool.execute call on a registered tool
ExecuteStep ==
    /\ pc = "act"
    /\ Registered(pending[1].action)
    /\ pc' = "loop"

\* C11: every tool.execute call adds exactly one to the usage_count of the
\* tool called, whatever the call returns, and leaves the other counters
\* alone; so whenever no query is being processed each registered tool's
\* usage_count is the number of Action steps naming it in reasoning_history.
C11_UsageCountsActionSteps ==
    /\ [][ExecuteStep =>
            usage_count' = [usage_count EXCEPT ![pending[1].action[1]] = @ + 1]]_vars
    /\ [][~ExecuteStep => usage_count' = usage_count]_vars
    /\ [](pc \in {"idle", "done"} =>
            \A t \in react_tools : usage_count[t] = ActionStepsStored(t))

C11_Witness ==
    /\ pc = "done"
    /\ Len(reasoning_history) = 2
    /\ usage_count["premium_calculator"] = 2
    /\ tool_outcome # None
    /\ tool_outcome[1].kind = "raise"
    /\ Last(reasoning_history[1].steps).tool_output[1].kind = "result"

\* C12: whenever reset_stats is called it completes, and afterwards every
\* tool's usage_count is 0 and get_stats reports zero queries.
C12_ResetClearsStatistics ==
    [][reset_stats =>
        /\ reset_result' = Some([kind |-> "return", msg |-> RESET_MESSAGE])
        /\ \A t \in react_tools : usage_count'[t] = 0
        /\ get_stats(reasoning_history').total_queries = 0]_vars

(***************************************************************************)
(* Two requests on the singleton AgenticSystem of agentic_views.py.  Each  *)
(* tool call runs 'self.usage_count += 1', a read of the attribute         *)
(* followed by a write of the value read plus one, with nothing holding    *)
(* the other request back between the two unless the server handles one    *)
(* request at a time.                                                      *)
(***************************************************************************)
\* tool calls one request makes
MaxCalls == 2

ConcInit ==
    /\ pc = "idle"
    /\ max_iterations = SysMaxIter
    /\ trace = ReActTrace(SysMaxIter)
    /\ pending = None
    /\ response = None
    /\ llm_calls = 0
    /\ usage_count = [t \in react_tools |-> 0]
    /\ tool_outcome = None
    /\ reasoning_history = << >>
    /\ result = None
    /\ parsed = None
    /\ reset_result = None
    /\ serialized \in BOOLEAN
    /\ threads = [r \in Requests |-> IdleThread]
    /\ executes = [t \in react_tools |-> 0]
    /\ args = None
    /\ ret = None
    /\ retriever = None
    /\ memory = None

MayEnter_unlocked(r) == TRUE

\* one-request-at-a-time: a request is taken up only when no other is under way
MayEnter(r) ==
    serialized => \A o \in Requests \ {r} : threads[o].pc \in {"new", "done"}

ConcFrame ==
    UNCHANGED <<pc, max_iterations, trace, pending, response, llm_calls,
                tool_outcome, reasoning_history, result, parsed,
                reset_result, serialized, args, ret, retriever, memory>>

\* the view hands the request to the shared system
Arrive(r) ==
    /\ threads[r].pc = "new"
    /\ MayEnter(r)
    /\ threads' = [threads EXCEPT ![r].pc = "running"]
    /\ UNCHANGED <<usage_count, executes>>
    /\ ConcFrame

\* tool.execute is entered and usage_count is read
Load(r) ==
    /\ threads[r].pc = "running"
    /\ threads[r].calls < MaxCalls
    /\ \E t \in react_tools :
        /\ threads' = [threads EXCEPT ![r].pc = "loaded", ![r].tool = t,
                                      ![r].reg = usage_count[t]]
        /\ executes' = [executes EXCEPT ![t] = @ + 1]
    /\ UNCHANGED usage_count
    /\ ConcFrame

\* the value read plus one is written back and execute goes on
Store(r) ==
    /\ threads[r].pc = "loaded"
    /\ usage_count' = [usage_count EXCEPT ![threads[r].tool] = threads[r].reg + 1]
    /\ threads' = [threads EXCEPT ![r].pc = "running", ![r].calls = @ + 1]
    /\ UNCHANGED executes
    /\ ConcFrame

\* the request's run() returns
Leave(r) ==
    /\ threads[r].pc = "running"
    /\ threads' = [threads EXCEPT ![r].pc = "done"]
    /\ UNCHANGED <<usage_count, executes>>
    /\ ConcFrame

ConcNext == \E r \in Requests : Arrive(r) \/ Load(r) \/ Store(r) \/ Leave(r)

ConcSpec == ConcInit /\ [][ConcNext]_vars

\* no request stands between the read and the write of a counter
NoneLoaded == \A r \in Requests : threads[r].pc # "loaded"

\* C13: with requests handled one at a time every usage_count equals the
\* number of execute calls on the tool once the calls are through, and a
\* counter never exceeds that number; with two requests interleaving the
\* read and the write on the same tool a counter ends below it.
C13_SerializedCountsExact ==
    /\ \A t \in react_tools : usage_count[t] <= executes[t]
    /\ (serialized /\ NoneLoaded) =>
            \A t \in react_tools : usage_count[t] = executes[t]

\* lost update: both requests done, a counter below the number of calls
C13_Witness ==
    /\ ~serialized
    /\ \A r \in Requests : threads[r].pc = "done"
    /\ \E t \in react_tools : usage_count[t] < executes[t]

(***************************************************************************)
(* AgeBandMatcher (calculators/age_matcher.py).  A label is a sequence of  *)
(* tokens: a run of digits is the number it spells, every other token is   *)
(* one of the codes below.                                                 *)
(***************************************************************************)
DASH == 0 - 1       \* '-'
PLUS == 0 - 2       \* '+'
GT == 0 - 3         \* '>'
BLANK == 0 - 4      \* white space
DAYS == 0 - 5       \* 'days'
DAYS_CAP == 0 - 6   \* 'Days'
WORD == 0 - 7       \* any other run of characters, e.g. 'yrs'
AGE_BAND == 0 - 8   \* the column name 'Age Band'

IsNum(t) == t >= 0

\* str.lower()
Lower(s) == [i \in 1..Len(s) |-> IF s[i] = DAYS_CAP THEN DAYS ELSE s[i]]

RECURSIVE LabelLStrip(_)
LabelLStrip(s) ==
    IF s # << >> /\ s[1] = BLANK THEN LabelLStrip(Tail(s)) ELSE s

RECURSIVE LabelRStrip(_)
LabelRStrip(s) ==
    IF s # << >> /\ s[Len(s)] = BLANK
    THEN LabelRStrip(SubSeq(s, 1, Len(s) - 1)) ELSE s

\* str.strip()
LabelStrip(s) == LabelRStrip(LabelLStrip(s))

\* x in s
Contains(s, x) == \E i \in 1..Len(s) : s[i] = x

\* \s* from position i on: the first position that holds no white space
RECURSIVE SkipBlanks(_, _)
SkipBlanks(s, i) ==
    IF i <= Len(s) /\ s[i] = BLANK THEN SkipBlanks(s, i + 1) ELSE i

DaysPerYear == 365

NoMatch == [ok |-> FALSE, g1 |-> 0, g2 |-> None]

\* r'(\d+)\s*-?\s*(\d+)?\s*days?' tried at position i
DayPatternAt(s, i) ==
    LET a == SkipBlanks(s, i + 1)
        b == IF a <= Len(s) /\ s[a] = DASH THEN a + 1 ELSE a
        c == SkipBlanks(s, b)
        two == c <= Len(s) /\ IsNum(s[c])
        d == SkipBlanks(s, IF two THEN c + 1 ELSE c)
    IN  IF IsNum(s[i]) /\ d <= Len(s) /\ s[d] = DAYS
        THEN [ok |-> TRUE, g1 |-> s[i], g2 |-> IF two THEN Some(s[c]) ELSE None]
        ELSE NoMatch

\* re.search: the leftmost position where the pattern matches
DayPatternSearch(s) ==
    LET hits == {i \in 1..Len(s) : DayPatternAt(s, i).ok}
    IN  IF hits = {} THEN NoMatch
        ELSE DayPatternAt(s, CHOOSE i \in hits : \A j \in hits : i <= j)

\* re.search(r'(\d+)', s): the first number of the label
FirstNumber(s) ==
    LET hits == {i \in 1..Len(s) : IsNum(s[i])}
    IN  IF hits = {} THEN None
        ELSE Some(s[CHOOSE i \in hits : \A j \in hits : i <= j])

\* re.match(r'(\d+)\s*-\s*(\d+)', s)
RangePattern(s) ==
    LET a == SkipBlanks(s, 2)
        b == SkipBlanks(s, a + 1)
    IN  IF /\ s # << >> /\ IsNum(s[1])
           /\ a <= Len(s) /\ s[a] = DASH
           /\ b <= Len(s) /\ IsNum(s[b])
        THEN [ok |-> TRUE, g1 |-> s[1], g2 |-> Some(s[b])]
        ELSE NoMatch

AgeBand(lower, upper) == [ok |-> TRUE, lower |-> lower, upper |-> upper]
CannotParse == [ok |-> FALSE, lower |-> 0, upper |-> None]

\* the year-based patterns (lines 100-122)
ParseYears(s) ==
    LET pick(first, range) ==
            IF (Contains(s, PLUS) \/ Contains(s, GT)) /\ first # None
            THEN AgeBand(IF Contains(s, GT) /\ ~Contains(s, PLUS)
                         THEN first[1] + 1 ELSE first[1], None)
            ELSE IF range.ok THEN AgeBand(range.g1, range.g2)
            ELSE IF Len(s) = 1 /\ IsNum(s[1]) THEN AgeBand(s[1], Some(s[1]))
            ELSE CannotParse
    IN  pick(FirstNumber(s), RangePattern(s))

parse_age_band_ceil(age_band) ==
    LET years(lower_days, upper_days) ==
            AgeBand((lower_days + DaysPerYear - 1) \div DaysPerYear,
                    Some((upper_days + DaysPerYear - 1) \div DaysPerYear))
        days(s, m) ==
            IF Contains(s, DAYS) /\ m.ok
            THEN years(m.g1, IF m.g2 # None THEN m.g2[1] ELSE m.g1)
            ELSE ParseYears(s)
        parse(s) == days(s, DayPatternSearch(s))
    IN  parse(LabelStrip(Lower(age_band)))

\* AgeBandMatcher.parse_age_band; ok = FALSE stands for the ValueError
parse_age_band(age_band) ==
    LET years(lower_days, upper_days) ==
            AgeBand(lower_days \div DaysPerYear, Some(upper_days \div DaysPerYear))
        days(s, m) ==
            IF Contains(s, DAYS) /\ m.ok
            THEN years(m.g1, IF m.g2 # None THEN m.g2[1] ELSE m.g1)
            ELSE ParseYears(s)
        parse(s) == days(s, DayPatternSearch(s))
    IN  parse(LabelStrip(Lower(age_band)))

\* longest label parsed, in tokens
MaxLabel == 5

\* the day and year values the labels spell
LabelNumbers == {91, 400, 500}

LabelTokens == LabelNumbers \cup {DASH, PLUS, GT, BLANK, DAYS, DAYS_CAP, WORD}

\* a run of digits is one token, so no two numbers stand side by side
IsLabel(l) == \A i \in 1..(Len(l) - 1) : ~(IsNum(l[i]) /\ IsNum(l[i + 1]))

\* everything but the calculator call is at rest
ObjectFrame ==
    /\ max_iterations = 0
    /\ trace = ReActTrace(0)
    /\ pending = None
    /\ response = None
    /\ llm_calls = 0
    /\ usage_count = [t \in react_tools |-> 0]
    /\ tool_outcome = None
    /\ reasoning_history = << >>
    /\ result = None
    /\ parsed = None
    /\ reset_result = None
    /\ serialized = TRUE
    /\ threads = [r \in Requests |-> IdleThread]
    /\ executes = [t \in react_tools |-> 0]

CalcFrame == ObjectFrame /\ retriever = None /\ memory = None

CalcUnchanged ==
    UNCHANGED <<max_iterations, trace, pending, response, llm_calls,
                usage_count, tool_outcome, reasoning_history, result, parsed,
                reset_result, serialized, threads, executes, args,
                retriever, memory>>

AgeParseInit ==
    /\ pc = "call"
    /\ \E n \in 0..MaxLabel : \E l \in [1..n -> LabelTokens] :
            IsLabel(l) /\ args = Some([age_band |-> l])
    /\ ret = None
    /\ CalcFrame

AgeParseStep ==
    /\ pc = "call"
    /\ ret' = Some(parse_age_band(args[1].age_band))
    /\ pc' = "returned"
    /\ CalcUnchanged

AgeParseSpec == AgeParseInit /\ [][AgeParseStep]_vars

\* C16: every label parse_age_band accepts gets the band the label alone
\* determines, with lower <= upper whenever upper is not null.
C16_ParsedBandsOrdered ==
    (pc = "returned" /\ ret[1].ok) =>
        /\ ret[1] = parse_age_band(args[1].age_band)
        /\ ret[1].upper # None => ret[1].lower <= ret[1].upper[1]

\* the label without its white space
Squeeze(s) == SelectSeq(s, LAMBDA t : t # BLANK)

IsDaysWord(t) == t \in {DAYS, DAYS_CAP}

\* 'A days'
IsDayLabel(s) == Len(s) = 2 /\ IsNum(s[1]) /\ IsDaysWord(s[2])

\* 'A-B days'
IsDayRangeLabel(s) ==
    /\ Len(s) = 4
    /\ IsNum(s[1]) /\ s[2] = DASH /\ IsNum(s[3]) /\ IsDaysWord(s[4])

\* C17: 'A days' parses to (A div 365, A div 365) and 'A-B days' to
\* (A div 365, B div 365), so a label whose day values are all below 365
\* parses to lower = upper = 0.
C17_DaysDivide365 ==
    pc = "returned" =>
        LET s == Squeeze(args[1].age_band)
            band == ret[1]
        IN  /\ IsDayLabel(s) =>
                band = AgeBand(s[1] \div 365, Some(s[1] \div 365))
            /\ IsDayRangeLabel(s) =>
                band = AgeBand(s[1] \div 365, Some(s[3] \div 365))
            /\ (IsDayLabel(s) /\ s[1] < 365) =>
                band = AgeBand(0, Some(0))
            /\ (IsDayRangeLabel(s) /\ s[1] < 365 /\ s[3] < 365) =>
                band = AgeBand(0, Some(0))

\* '400-500 days' -> (1, 1)
C17_Witness ==
    /\ pc = "returned"
    /\ args[1].age_band = <<400, DASH, 500, BLANK, DAYS>>
    /\ ret[1] = AgeBand(1, Some(1))

(***************************************************************************)
(* A DataFrame is its column names and its rows, a row holding one cell    *)
(* per column.  The cells of 'Age Band' are labels.                        *)
(***************************************************************************)
\* None given where an age is expected: a JSON null, or 'age': None
NULL == 0 - 1

DataFrame(columns, rows) == [columns |-> columns, rows |-> rows]

\* col in df.columns
HasColumn(df, col) == \E c \in 1..Len(df.columns) : df.columns[c] = col

ColumnIndex(df, col) ==
    CHOOSE c \in 1..Len(df.columns) :
        /\ df.columns[c] = col
        /\ \A d \in 1..Len(df.columns) : df.columns[d] = col => c <= d

Returns(value) == [kind |-> "return", value |-> value]
Raises(error) == [kind |-> "raise", value |-> error]

BandContains_strict(band, age) ==
    IF band.upper = None THEN age >= band.lower
    ELSE band.lower <= age /\ age < band.upper[1]

\* lines 169-173: age >= lower for an open band, lower <= age <= upper else
BandContains(band, age) ==
    IF band.upper = None THEN age >= band.lower
    ELSE band.lower <= age /\ age <= band.upper[1]

\* the least element of a set of row positions
First(S) == CHOOSE i \in S : \A j \in S : i <= j

find_age_band_row_single_pass(df, age) ==
    LET pick(bands) ==
            LET hit == {i \in 1..Len(df.rows) :
                            bands[i].ok /\ BandContains(bands[i], age)}
            IN  IF hit # {} THEN Returns(Some(First(hit) - 1))
                ELSE Returns(None)
        labels(c) == pick([i \in 1..Len(df.rows) |->
                                parse_age_band(LabelStrip(df.rows[i][c]))])
    IN  IF ~HasColumn(df, <<AGE_BAND>>)
        THEN Raises("ValueError")
        ELSE labels(ColumnIndex(df, <<AGE_BAND>>))

\* AgeBandMatcher.find_age_band_row; the value returned is the row's index
\* label, which counts from 0
find_age_band_row(df, age) ==
    LET pick(bands) ==
            LET exact == {i \in 1..Len(df.rows) :
                            /\ bands[i].ok
                            /\ Some(bands[i].lower) = bands[i].upper
                            /\ bands[i].upper = Some(age)}
                within == {i \in 1..Len(df.rows) :
                            bands[i].ok /\ BandContains(bands[i], age)}
            IN  IF age = NULL
                THEN IF \E i \in 1..Len(df.rows) : bands[i].ok
                     THEN Raises("TypeError") ELSE Returns(None)
                ELSE IF exact # {} THEN Returns(Some(First(exact) - 1))
                ELSE IF within # {} THEN Returns(Some(First(within) - 1))
                ELSE Returns(None)
        labels(c) == pick([i \in 1..Len(df.rows) |->
                                parse_age_band(LabelStrip(df.rows[i][c]))])
    IN  IF ~HasColumn(df, <<AGE_BAND>>)
        THEN Raises("ValueError")
        ELSE labels(ColumnIndex(df, <<AGE_BAND>>))

\* rows of one table
MaxRows == 3

\* the labels the tables under check are built from
RowLabels ==
    { <<35>>, <<BLANK, 35, BLANK>>, <<35, DASH, 35>>,
      <<30, DASH, 40>>, <<40, DASH, 30>>,
      <<36, PLUS>>, <<GT, BLANK, 30>>,
      <<91, BLANK, DAYS_CAP>>, <<WORD>> }

\* the ages looked up
LookupAges == {0, 20, 35, 36, 40}

AgeRowInit ==
    /\ pc = "call"
    /\ \E n \in 0..MaxRows : \E labels \in [1..n -> RowLabels] :
       \E col \in {<<AGE_BAND>>, <<WORD>>} : \E age \in LookupAges :
            args = Some([df |-> DataFrame(<<col>>, [i \in 1..n |-> <<labels[i]>>]),
                         age |-> age])
    /\ ret = None
    /\ CalcFrame

AgeRowStep ==
    /\ pc = "call"
    /\ ret' = Some(find_age_band_row(args[1].df, args[1].age))
    /\ pc' = "returned"
    /\ CalcUnchanged

AgeRowSpec == AgeRowInit /\ [][AgeRowStep]_vars

\* the band of row i of the table looked up, parsed from its label
RowBand(i) == parse_age_band(args[1].df.rows[i][1])

\* rows whose label parses to the single age looked up
ExactRows ==
    {i \in 1..Len(args[1].df.rows) :
        /\ RowBand(i).ok
        /\ RowBand(i).lower = args[1].age
        /\ RowBand(i).upper = Some(args[1].age)}

\* rows whose label parses to a band holding the age looked up
Holds(i) ==
    /\ RowBand(i).ok
    /\ RowBand(i).lower <= args[1].age
    /\ RowBand(i).upper # None => args[1].age <= RowBand(i).upper[1]

HoldingRows == {i \in 1..Len(args[1].df.rows) : Holds(i)}

Looked == pc = "returned" /\ HasColumn(args[1].df, <<AGE_BAND>>)

\* C14: when some row parses to the exact age, the first such row is
\* returned, even after an earlier band row holding the age; a row that is
\* not exact is returned only when there is no exact row.
C14_ExactRowsFirst ==
    Looked =>
        /\ ExactRows # {} => ret[1] = Returns(Some(First(ExactRows) - 1))
        /\ (ret[1].kind = "return" /\ ret[1].value # None
               /\ ret[1].value[1] + 1 \notin ExactRows) => ExactRows = {}

C14_Witness ==
    /\ Looked
    /\ Len(args[1].df.rows) = 3
    /\ args[1].age = 35
    /\ args[1].df.rows[1][1] = <<30, DASH, 40>>
    /\ args[1].df.rows[2][1] = <<WORD>>
    /\ args[1].df.rows[3][1] = <<35>>
    /\ ret[1] = Returns(Some(2))

\* C15: with the 'Age Band' column present find_age_band_row never raises;
\* a returned row parses to a band holding the age, without an exact row it
\* is the first such row, and None comes back exactly when no parseable row
\* holds the age.
C15_RowLookupTotal ==
    Looked =>
        /\ ret[1].kind = "return"
        /\ ret[1].value # None => ret[1].value[1] + 1 \in HoldingRows
        /\ (ExactRows = {} /\ HoldingRows # {}) =>
                ret[1] = Returns(Some(First(HoldingRows) - 1))
        /\ ret[1].value = None <=> HoldingRows = {}

C15_Witness ==
    /\ Looked
    /\ Len(args[1].df.rows) = 3
    /\ args[1].age = 36
    /\ args[1].df.rows[1][1] = <<WORD>>
    /\ args[1].df.rows[2][1] = <<35>>
    /\ args[1].df.rows[3][1] = <<36, PLUS>>
    /\ ret[1] = Returns(Some(2))

(***************************************************************************)
(* ExcelWorkbookParser (calculators/excel_parser.py): sum-insured column   *)
(* names and the ceiling rule.  A column name is a sequence of tokens like *)
(* a label; the further codes are the unit words.                          *)
(***************************************************************************)
UNIT_L == 0 - 9         \* 'L'
UNIT_L_SMALL == 0 - 10  \* 'l'
UNIT_LAKH == 0 - 11     \* 'LAKH'
UNIT_LAKH_SMALL == 0 - 12   \* 'lakh'
UNIT_LAC == 0 - 13      \* 'LAC'

\* one lakh in INR
LakhInr == 100000

\* str.upper()
Upper(s) ==
    [i \in 1..Len(s) |->
        CASE s[i] = UNIT_L_SMALL -> UNIT_L
          [] s[i] = UNIT_LAKH_SMALL -> UNIT_LAKH
          [] OTHER -> s[i]]

\* .replace(' ', '')
RemoveBlanks(s) == SelectSeq(s, LAMBDA t : t # BLANK)

Amount(value) == [ok |-> TRUE, value |-> value]
CannotParseAmount == [ok |-> FALSE, value |-> 0]

\* ExcelWorkbookParser.parse_sum_insured on a column name; ok = FALSE stands
\* for the ValueError
parse_sum_insured(sum_insured_input) ==
    LET s == RemoveBlanks(Upper(LabelStrip(sum_insured_input)))
    IN  IF Len(s) >= 2 /\ IsNum(s[1]) /\ s[2] \in {UNIT_L, UNIT_LAKH, UNIT_LAC}
        THEN Amount(s[1] * LakhInr)
        ELSE IF Len(s) >= 2 /\ IsNum(s[1]) /\ s[2] \in {UNIT_LAKH, UNIT_LAC}
        THEN Amount(s[1] * LakhInr)
        ELSE IF Len(s) = 1 /\ IsNum(s[1]) THEN Amount(s[1])
        ELSE IF Len(s) = 2 /\ s[1] = PLUS /\ IsNum(s[2]) THEN Amount(s[2])
        ELSE IF Len(s) = 2 /\ s[1] = DASH /\ IsNum(s[2]) THEN Amount(0 - s[2])
        ELSE CannotParseAmount

\* parse_sum_insured of every column name (line 253)
ColumnValues(df) ==
    [c \in 1..Len(df.columns) |-> parse_sum_insured(df.columns[c])]

\* the columns that make it into candidates (lines 248-256)
Candidates(df, values) ==
    {c \in 1..Len(df.columns) : df.columns[c] # <<AGE_BAND>> /\ values[c].ok}

\* c stands before d once candidates is sorted by value; list.sort keeps
\* the column order among equal values
SortsBefore(values, c, d) ==
    \/ values[c].value < values[d].value
    \/ values[c].value = values[d].value /\ c <= d

\* the first of the columns S in sorted order
FirstSorted(values, S) == CHOOSE c \in S : \A d \in S : SortsBefore(values, c, d)

\* candidates[-1]
LastSorted(values, S) == CHOOSE c \in S : \A d \in S : SortsBefore(values, d, c)

CeilingColumn_unsorted(values, candidates, sum_insured) ==
    LET higher == {c \in candidates : values[c].value > sum_insured}
    IN  IF higher = {} THEN None ELSE Some(First(higher))

\* "Ceiling rule: find next higher" (lines 269-273)
CeilingColumn(values, candidates, sum_insured) ==
    LET higher == {c \in candidates : values[c].value > sum_insured}
    IN  IF higher = {} THEN None ELSE Some(FirstSorted(values, higher))

\* "Find exact match" (lines 264-267)
ExactColumn(values, candidates, sum_insured) ==
    LET exact == {c \in candidates : values[c].value = sum_insured}
    IN  IF exact = {} THEN None ELSE Some(FirstSorted(values, exact))

find_sum_insured_column_no_exact(df, sum_insured) ==
    LET pick(values, candidates, ceiling) ==
            IF candidates = {} THEN None
            ELSE IF ceiling # None THEN Some(df.columns[ceiling[1]])
            ELSE Some(df.columns[LastSorted(values, candidates)])
        sorted(values, candidates) ==
            pick(values, candidates,
                 CeilingColumn(values, candidates, sum_insured))
        parse(values) == sorted(values, Candidates(df, values))
    IN  parse(ColumnValues(df))

\* ExcelWorkbookParser.find_sum_insured_column: the column name, or None
find_sum_insured_column(df, sum_insured) ==
    LET pick(values, candidates, exact, ceiling) ==
            IF candidates = {} THEN None
            ELSE IF exact # None THEN Some(df.columns[exact[1]])
            ELSE IF ceiling # None THEN Some(df.columns[ceiling[1]])
            ELSE Some(df.columns[LastSorted(values, candidates)])
        sorted(values, candidates) ==
            pick(values, candidates,
                 ExactColumn(values, candidates, sum_insured),
                 CeilingColumn(values, candidates, sum_insured))
        parse(values) == sorted(values, Candidates(df, values))
    IN  parse(ColumnValues(df))

\* columns of one table
MaxCols == 3

\* the column names the tables under check are built from
ColumnNames ==
    { <<AGE_BAND>>, <<2, UNIT_L>>, <<5, UNIT_L>>, <<5, BLANK, UNIT_LAKH_SMALL>>,
      <<500000>>, <<10, UNIT_L_SMALL>>, <<WORD>> }

\* the sums insured asked for
SumsInsured == {100000, 200000, 300000, 500000, 1000000, 2000000}

ColumnInit ==
    /\ pc = "call"
    /\ \E n \in 0..MaxCols : \E cols \in [1..n -> ColumnNames] :
       \E si \in SumsInsured :
            args = Some([df |-> DataFrame(cols, << >>), sum_insured |-> si])
    /\ ret = None
    /\ CalcFrame

ColumnStep ==
    /\ pc = "call"
    /\ ret' = Some(find_sum_insured_column(args[1].df, args[1].sum_insured))
    /\ pc' = "returned"
    /\ CalcUnchanged

ColumnSpec == ColumnInit /\ [][ColumnStep]_vars

\* the parsed values of the table's columns
ParsedValues ==
    {parse_sum_insured(args[1].df.columns[c]).value :
        c \in {d \in 1..Len(args[1].df.columns) :
                    parse_sum_insured(args[1].df.columns[d]).ok}}

\* the column find_sum_insured_column returned
Found == ret[1]

\* C18: when the target equals the parsed value of some column, the column
\* returned parses to exactly the target.
C18_ExactColumnWins ==
    (pc = "returned" /\ args[1].sum_insured \in ParsedValues) =>
        /\ Found # None
        /\ parse_sum_insured(Found[1]) = Amount(args[1].sum_insured)

C18_Witness ==
    /\ pc = "returned"
    /\ args[1].df.columns = << <<10, UNIT_L_SMALL>>, <<5, BLANK, UNIT_LAKH_SMALL>>, <<2, UNIT_L>> >>
    /\ args[1].sum_insured = 500000
    /\ Found = Some(<<5, BLANK, UNIT_LAKH_SMALL>>)

\* C19: when no column parses to the target, the column returned has the
\* smallest parsed value above the target, or the highest parsed value when
\* the target is above every column; None comes back only when no column
\* parses.
C19_CeilingElseHighest ==
    (pc = "returned" /\ args[1].sum_insured \notin ParsedValues) =>
        LET above == {v \in ParsedValues : v > args[1].sum_insured}
        IN  /\ above # {} =>
                /\ Found # None
                /\ parse_sum_insured(Found[1]).value \in above
                /\ \A v \in above : parse_sum_insured(Found[1]).value <= v
            /\ (above = {} /\ ParsedValues # {}) =>
                /\ Found # None
                /\ parse_sum_insured(Found[1]).ok
                /\ \A v \in ParsedValues : v <= parse_sum_insured(Found[1]).value
            /\ Found = None <=> ParsedValues = {}

C19_Witness ==
    /\ pc = "returned"
    /\ args[1].df.columns = << <<AGE_BAND>>, <<10, UNIT_L_SMALL>>, <<5, UNIT_L>> >>
    /\ args[1].sum_insured = 300000
    /\ Found = Some(<<5, UNIT_L>>)

(***************************************************************************)
(* PremiumCalculator (calculators/calculator_base.py) over a workbook.     *)
(* Amounts are held in hundredths of a rupee and the GST rate in percent,  *)
(* so that gross * rate is exact.                                          *)
(***************************************************************************)
\* hundredths in one rupee, and percent in one
Hundred == 100

\* a premium cell that holds no number
NAN == 0 - 1

\* pd.isna(premium) / float(premium)
ToFloat(cell) == cell * Hundred

\* sheet names: 'Individual', '2 Adults', '1 Adult + 1 Child', ...
SheetName(adults, children, word) ==
    [adults |-> adults, children |-> children, word |-> word]

INDIVIDUAL == SheetName("Individual", 0, "")

BandRows ==
    << <<<<18, DASH, 35>>, 6887, 7000, NAN>>,
       <<<<36, PLUS>>, 8000, 9000, 9500>> >>

RateColumns == << <<AGE_BAND>>, <<5, UNIT_L>>, <<10, UNIT_L>>, <<15, UNIT_L>> >>

\* children of one family floater
MaxChildren == 4

\* a workbook with three sheets, one with a sheet for every composition of
\* one or two adults and up to MaxChildren children, and one whose 'Individual' sheet has lost
\* its 'Age Band' header
Workbooks ==
    { [s \in {INDIVIDUAL, SheetName("2 Adults", 0, ""),
              SheetName("2 Adults", 1, "Child")} |->
            DataFrame(RateColumns, BandRows)],
      [s \in {INDIVIDUAL, SheetName("2 Adults", 0, "")} \cup
              {SheetName(a, 1, "Child") : a \in {"1 Adult", "2 Adults"}} \cup
              {SheetName(a, m, "Children") :
                    a \in {"1 Adult", "2 Adults"}, m \in 2..MaxChildren} |->
            DataFrame(RateColumns, BandRows)],
      [s \in {INDIVIDUAL} |->
            DataFrame(<< <<WORD>> >> \o Tail(RateColumns), BandRows)] }

\* df.loc[row_idx, col_name]
Loc(df, row_idx, col_name) == df.rows[row_idx + 1][ColumnIndex(df, col_name)]

\* ExcelWorkbookParser.lookup_premium
lookup_premium(sheets, sheet_name, age, sum_insured) ==
    LET cell(df, row, col) ==
            IF row.kind = "raise" THEN row
            ELSE IF row.value = None THEN Returns(None)
            ELSE IF col = None THEN Returns(None)
            ELSE IF Loc(df, row.value[1], col[1]) = NAN THEN Returns(None)
            ELSE Returns(Some(ToFloat(Loc(df, row.value[1], col[1]))))
        sheet(df) == cell(df, find_age_band_row(df, age),
                          find_sum_insured_column(df, sum_insured))
    IN  IF sheet_name \notin DOMAIN sheets THEN Returns(None)
        ELSE sheet(sheets[sheet_name])

GstAmount_always(gross, gst_rate, include_gst) == (gross * gst_rate) \div Hundred

\* gross * self.gst_rate if include_gst else 0 (lines 183, 275)
GstAmount(gross, gst_rate, include_gst) ==
    IF include_gst THEN (gross * gst_rate) \div Hundred ELSE 0

\* str(df.loc[row_idx, 'Age Band']), or 'Unknown'
AgeBandShown(df, age) ==
    LET shown(row) ==
            IF row.value # None THEN Loc(df, row.value[1], <<AGE_BAND>>)
            ELSE <<WORD>>
    IN  shown(find_age_band_row(df, age))

\* member.get('age') is None: no 'age' key, or a null under it
AgeIsNone(member) == member.age \in {None, Some(NULL)}

\* the loop over members (lines 146-181): the breakdown and gross total so
\* far, or the error a lookup raised
RECURSIVE MembersLoop(_, _, _, _)
MembersLoop(self, members, sum_insured, acc) ==
    LET step(member, premium) ==
            IF AgeIsNone(member)
            THEN [acc EXCEPT !.breakdown =
                    Append(@, [member |-> member,
                               error |-> "Age not provided",
                               premium |-> 0])]
            ELSE IF premium.kind = "raise"
            THEN [acc EXCEPT !.raised = Some(premium.value)]
            ELSE IF premium.value = None
            THEN [acc EXCEPT !.breakdown =
                    Append(@, [member |-> member, age |-> member.age[1],
                               error |-> "Premium not found",
                               premium |-> 0])]
            ELSE [acc EXCEPT
                    !.breakdown =
                        Append(@, [member |-> member, age |-> member.age[1],
                                   age_band |-> AgeBandShown(
                                        self.sheets[INDIVIDUAL], member.age[1]),
                                   sum_insured |-> sum_insured,
                                   premium |-> premium.value[1]]),
                    !.gross_total = @ + premium.value[1]]
        look(member) ==
            step(member, lookup_premium(self.sheets, INDIVIDUAL,
                                        member.age[1], sum_insured))
    IN  IF members = << >> \/ acc.raised # None THEN acc
        ELSE MembersLoop(self, Tail(members), sum_insured, look(Head(members)))

calculate_individual_premium_aborting(self, members, sum_insured, include_gst) ==
    LET total(loop, gst_amount) ==
            IF loop.raised # None THEN Raises(loop.raised[1])
            ELSE IF \E i \in 1..Len(loop.breakdown) :
                        "error" \in DOMAIN loop.breakdown[i]
            THEN Returns([error |-> "Premium not found",
                          policy_type |-> "individual"])
            ELSE Returns([policy_type |-> "individual",
                          sum_insured |-> sum_insured,
                          gross_premium |-> loop.gross_total,
                          gst_rate |-> IF include_gst THEN self.gst_rate ELSE 0,
                          gst_amount |-> gst_amount,
                          total_premium |-> loop.gross_total + gst_amount,
                          breakdown |-> loop.breakdown])
        tax(loop) ==
            total(loop, GstAmount(loop.gross_total, self.gst_rate, include_gst))
    IN  IF members = << >>
        THEN Returns([error |-> "No members provided", policy_type |-> "individual",
                      gross_premium |-> 0, gst_amount |-> 0, total_premium |-> 0])
        ELSE tax(MembersLoop(self, members, sum_insured,
                    [breakdown |-> << >>, gross_total |-> 0, raised |-> None]))

\* PremiumCalculator.calculate_individual_premium
calculate_individual_premium(self, members, sum_insured, include_gst) ==
    LET total(loop, gst_amount) ==
            IF loop.raised # None THEN Raises(loop.raised[1])
            ELSE Returns([policy_type |-> "individual",
                          sum_insured |-> sum_insured,
                          gross_premium |-> loop.gross_total,
                          gst_rate |-> IF include_gst THEN self.gst_rate ELSE 0,
                          gst_amount |-> gst_amount,
                          total_premium |-> loop.gross_total + gst_amount,
                          breakdown |-> loop.breakdown])
        tax(loop) ==
            total(loop, GstAmount(loop.gross_total, self.gst_rate, include_gst))
    IN  IF members = << >>
        THEN Returns([error |-> "No members provided", policy_type |-> "individual",
                      gross_premium |-> 0, gst_amount |-> 0, total_premium |-> 0])
        ELSE tax(MembersLoop(self, members, sum_insured,
                    [breakdown |-> << >>, gross_total |-> 0, raised |-> None]))

FloaterSheet_plural(num_adults, num_children) ==
    IF num_children = 0
    THEN IF num_adults = 1 THEN Some(INDIVIDUAL)
         ELSE IF num_adults = 2 THEN Some(SheetName("2 Adults", 0, ""))
         ELSE None
    ELSE IF num_adults = 1
    THEN Some(SheetName("1 Adult", num_children, "Children"))
    ELSE IF num_adults = 2
    THEN Some(SheetName("2 Adults", num_children, "Children"))
    ELSE None

\* "Determine sheet name based on composition" (lines 239-252); None for an
\* unsupported composition
FloaterSheet(num_adults, num_children) ==
    IF num_children = 0
    THEN IF num_adults = 1 THEN Some(INDIVIDUAL)
         ELSE IF num_adults = 2 THEN Some(SheetName("2 Adults", 0, ""))
         ELSE None
    ELSE IF num_adults = 1
    THEN Some(SheetName("1 Adult", num_children,
                        IF num_children = 1 THEN "Child" ELSE "Children"))
    ELSE IF num_adults = 2
    THEN Some(SheetName("2 Adults", num_children,
                        IF num_children = 1 THEN "Child" ELSE "Children"))
    ELSE None

\* PremiumCalculator.calculate_family_floater_premium
calculate_family_floater_premium(self, num_adults, num_children, eldest_age, sum_insured, include_gst) ==
    LET total(sheet_name, gross, gst_amount) ==
            Returns([policy_type |-> "family_floater",
                     composition |-> sheet_name,
                     num_adults |-> num_adults,
                     num_children |-> num_children,
                     eldest_age |-> eldest_age,
                     age_band |-> AgeBandShown(self.sheets[sheet_name], eldest_age),
                     sum_insured |-> sum_insured,
                     gross_premium |-> gross,
                     gst_rate |-> IF include_gst THEN self.gst_rate ELSE 0,
                     gst_amount |-> gst_amount,
                     total_premium |-> gross + gst_amount])
        tax(sheet_name, gross) ==
            IF gross.kind = "raise" THEN gross
            ELSE IF gross.value = None
            THEN Returns([error |-> "Premium not found",
                          policy_type |-> "family_floater",
                          composition |-> sheet_name])
            ELSE total(sheet_name, gross.value[1],
                       GstAmount(gross.value[1], self.gst_rate, include_gst))
        look(sheet) ==
            IF sheet = None
            THEN Returns([error |-> "Unsupported composition"])
            ELSE IF sheet[1] \notin DOMAIN self.sheets
            THEN Returns([error |-> "Sheet not found", policy_type |-> "family_floater"])
            ELSE tax(sheet[1], lookup_premium(self.sheets, sheet[1],
                                              eldest_age, sum_insured))
    IN  look(FloaterSheet(num_adults, num_children))

\* adult_threshold (line 348)
adult_threshold == 18

\* the largest number of a non-empty set
Max(S) == CHOOSE x \in S : \A y \in S : y <= x

calculate_premium_first_adult(self, policy_type, members, num_adults, num_children, sum_insured, include_gst) ==
    LET ages == {members[i].age[1] : i \in 1..Len(members)}
        adults == {i \in 1..Len(members) :
                        members[i].age # None /\ members[i].age[1] >= adult_threshold}
        detected ==
            IF \E i \in 1..Len(members) : members[i].age = Some(NULL)
            THEN Raises("TypeError")
            ELSE Returns(Some([num_adults |-> Cardinality(adults),
                               num_children |-> Len(members) - Cardinality(adults),
                               eldest_age |->
                                    IF adults # {} THEN members[First(adults)].age[1]
                                    ELSE adult_threshold]))
        provided ==
            IF \E i \in 1..Len(members) : members[i].age = None
            THEN Raises("KeyError")
            ELSE IF Len(members) >= 2 /\ NULL \in ages
            THEN Raises("TypeError")
            ELSE Returns(Some([num_adults |-> num_adults[1],
                               num_children |-> num_children[1],
                               eldest_age |-> Max(ages)]))
        floater(composition) ==
            IF composition.kind = "raise" THEN composition
            ELSE IF composition.value = None
            THEN Returns([error |-> "Must provide members or eldest_age"])
            ELSE calculate_family_floater_premium(self,
                    composition.value[1].num_adults,
                    composition.value[1].num_children,
                    composition.value[1].eldest_age, sum_insured, include_gst)
    IN  IF policy_type = "individual"
        THEN calculate_individual_premium(self, members, sum_insured, include_gst)
        ELSE IF policy_type = "family_floater"
        THEN floater(IF members # << >> /\ (num_adults = None \/ num_children = None)
                     THEN detected
                     ELSE IF members # << >> THEN provided
                     ELSE Returns(None))
        ELSE Returns([error |-> "Unknown policy_type"])

\* PremiumCalculator.calculate_premium; members None and members [] are both
\* the empty sequence (the code only tests "members or []" and "if members")
calculate_premium(self, policy_type, members, num_adults, num_children, sum_insured, include_gst) ==
    LET ages == {members[i].age[1] : i \in 1..Len(members)}
        adults == {i \in 1..Len(members) :
                        members[i].age # None /\ members[i].age[1] >= adult_threshold}
        detected ==
            IF \E i \in 1..Len(members) : members[i].age = Some(NULL)
            THEN Raises("TypeError")
            ELSE Returns(Some([num_adults |-> Cardinality(adults),
                               num_children |-> Len(members) - Cardinality(adults),
                               eldest_age |->
                                    IF adults # {} THEN Max({members[i].age[1] : i \in adults})
                                    ELSE adult_threshold]))
        provided ==
            IF \E i \in 1..Len(members) : members[i].age = None
            THEN Raises("KeyError")
            ELSE IF Len(members) >= 2 /\ NULL \in ages
            THEN Raises("TypeError")
            ELSE Returns(Some([num_adults |-> num_adults[1],
                               num_children |-> num_children[1],
                               eldest_age |-> Max(ages)]))
        floater(composition) ==
            IF composition.kind = "raise" THEN composition
            ELSE IF composition.value = None
            THEN Returns([error |-> "Must provide members or eldest_age"])
            ELSE calculate_family_floater_premium(self,
                    composition.value[1].num_adults,
                    composition.value[1].num_children,
                    composition.value[1].eldest_age, sum_insured, include_gst)
    IN  IF policy_type = "individual"
        THEN calculate_individual_premium(self, members, sum_insured, include_gst)
        ELSE IF policy_type = "family_floater"
        THEN floater(IF members # << >> /\ (num_adults = None \/ num_children = None)
                     THEN detected
                     ELSE IF members # << >> THEN provided
                     ELSE Returns(None))
        ELSE Returns([error |-> "Unknown policy_type"])

\* members of one individual policy
MaxMembers == 2

MemberAges == {7, 18, 35, 40}

\* a member dict, with or without its 'age'
Members == {[age |-> None]} \cup {[age |-> Some(a)] : a \in MemberAges \cup {NULL}}

PremiumSums == {500000, 1200000}

\* gst_rate given to the constructor, in percent (0.18 by default)
GstRates == {18, 12}

PremiumInit ==
    /\ pc = "call"
    /\ \E wb \in Workbooks : \E rate \in GstRates :
       \E si \in PremiumSums : \E inc \in BOOLEAN :
         LET self == [gst_rate |-> rate, sheets |-> wb] IN
         \/ \E n \in 0..MaxMembers : \E ms \in [1..n -> Members] :
                args = Some([fn |-> "individual", self |-> self, members |-> ms,
                             sum_insured |-> si, include_gst |-> inc])
         \/ \E na \in 0..3 : \E nc \in 0..MaxChildren : \E age \in MemberAges :
                args = Some([fn |-> "family_floater", self |-> self,
                             num_adults |-> na, num_children |-> nc,
                             eldest_age |-> age,
                             sum_insured |-> si, include_gst |-> inc])
    /\ ret = None
    /\ CalcFrame

IndividualStep ==
    /\ pc = "call"
    /\ args[1].fn = "individual"
    /\ ret' = Some(calculate_individual_premium(args[1].self, args[1].members,
                        args[1].sum_insured, args[1].include_gst))
    /\ pc' = "returned"
    /\ CalcUnchanged

FloaterStep ==
    /\ pc = "call"
    /\ args[1].fn = "family_floater"
    /\ ret' = Some(calculate_family_floater_premium(args[1].self,
                        args[1].num_adults, args[1].num_children,
                        args[1].eldest_age, args[1].sum_insured,
                        args[1].include_gst))
    /\ pc' = "returned"
    /\ CalcUnchanged

PremiumNext == IndividualStep \/ FloaterStep

PremiumSpec == PremiumInit /\ [][PremiumNext]_vars

\* the call returned a dict without an 'error' key
Succeeded ==
    /\ pc = "returned"
    /\ ret[1].kind = "return"
    /\ "error" \notin DOMAIN ret[1].value

\* C20: every successful result of the two calculations has total_premium =
\* gross_premium + gst_amount and gst_amount = gross_premium * gst_rate for
\* the rate given at construction, and with include_gst=False gst_amount = 0
\* and total_premium = gross_premium.
C20_GstArithmetic ==
    Succeeded =>
        LET r == ret[1].value IN
        /\ r.total_premium = r.gross_premium + r.gst_amount
        /\ args[1].include_gst =>
                r.gst_amount * Hundred = r.gross_premium * args[1].self.gst_rate
        /\ ~args[1].include_gst =>
                r.gst_amount = 0 /\ r.total_premium = r.gross_premium

C20_Witness ==
    /\ Succeeded
    /\ args[1].fn = "family_floater"
    /\ args[1].include_gst
    /\ ret[1].value.gross_premium = ToFloat(6887)
    /\ ret[1].value.gst_amount = 123966
    /\ ret[1].value.total_premium = 812666


\* the sheet name the composition of n adults and m children stands for
NamedSheet(n, m) ==
    IF m = 0 THEN (IF n = 1 THEN INDIVIDUAL ELSE SheetName("2 Adults", 0, ""))
    ELSE SheetName(IF n = 1 THEN "1 Adult" ELSE "2 Adults", m,
                   IF m = 1 THEN "Child" ELSE "Children")

\* C21: for one or two adults and any number of children the family-floater
\* sheet name is derived from the two counts alone ('Individual', '2 Adults',
\* '<n> Adult(s) + 1 Child', '<n> Adult(s) + <m> Children'), and the call is
\* never refused as an unsupported composition; any other adult count
\* returns the 'Unsupported composition' error result.
C21_SheetNameDerivation ==
    (pc = "returned" /\ args[1].fn = "family_floater") =>
        LET n == args[1].num_adults
            m == args[1].num_children
        IN  IF n \in {1, 2}
            THEN /\ FloaterSheet(n, m) = Some(NamedSheet(n, m))
                 /\ ret[1] # Returns([error |-> "Unsupported composition"])
                 /\ (ret[1].kind = "return" /\ "composition" \in DOMAIN ret[1].value)
                        => ret[1].value.composition = NamedSheet(n, m)
            ELSE ret[1] = Returns([error |-> "Unsupported composition"])

C21_Witness ==
    /\ Succeeded
    /\ args[1].fn = "family_floater"
    /\ args[1].num_adults = 1
    /\ args[1].num_children = 3
    /\ ret[1].value.composition = SheetName("1 Adult", 3, "Children")


\* the 'Individual' sheet can be searched by age: it is missing, or it has
\* its 'Age Band' column
IndividualSheetReadable(sheets) ==
    INDIVIDUAL \in DOMAIN sheets => HasColumn(sheets[INDIVIDUAL], <<AGE_BAND>>)

\* what lookup_premium finds for member i of the call, None when the member
\* has no age or nothing matches
MemberQuote(i) ==
    IF AgeIsNone(args[1].members[i]) THEN None
    ELSE lookup_premium(args[1].self.sheets, INDIVIDUAL,
                        args[1].members[i].age[1], args[1].sum_insured).value

MaxFamily == 3

PolicyTypes == {"individual", "family_floater", "term"}

\* num_adults and num_children as the tool passes them: both given, one
\* given, or neither
GivenCounts == {<<None, None>>, <<Some(2), None>>, <<Some(2), Some(1)>>}

PolicyInit ==
    /\ pc = "call"
    /\ \E wb \in Workbooks : \E inc \in BOOLEAN :
       \E n \in 0..MaxFamily : \E ms \in [1..n -> Members] :
       \E type \in PolicyTypes : \E given \in GivenCounts :
            /\ type # "family_floater" => given = <<None, None>>
            /\ args = Some([fn |-> "calculate_premium",
                            self |-> [gst_rate |-> 18, sheets |-> wb],
                            policy_type |-> type, members |-> ms,
                            num_adults |-> given[1], num_children |-> given[2],
                            sum_insured |-> 1000000, include_gst |-> inc])
    /\ ret = None
    /\ CalcFrame

PolicyStep ==
    /\ pc = "call"
    /\ ret' = Some(calculate_premium(args[1].self, args[1].policy_type,
                        args[1].members, args[1].num_adults,
                        args[1].num_children, args[1].sum_insured,
                        args[1].include_gst))
    /\ pc' = "returned"
    /\ CalcUnchanged

PolicySpec == PolicyInit /\ [][PolicyStep]_vars

\* a family-floater call with members, without both counts, every age given
\* being a number
AutoDetected ==
    /\ pc = "returned"
    /\ args[1].policy_type = "family_floater"
    /\ args[1].members # << >>
    /\ args[1].num_adults = None \/ args[1].num_children = None
    /\ \A i \in 1..Len(args[1].members) : args[1].members[i].age # Some(NULL)

\* the ages of the members counted as adults
AdultAges ==
    {args[1].members[i].age[1] : i \in {j \in 1..Len(args[1].members) :
        args[1].members[j].age # None /\ args[1].members[j].age[1] >= 18}}

\* the members counted as children: younger than 18, or without an age
ChildCount ==
    Cardinality({i \in 1..Len(args[1].members) :
        args[1].members[i].age = None \/ args[1].members[i].age[1] < 18})

\* C23: calculate_premium('family_floater', members) without both counts
\* answers as calculate_family_floater_premium does for adults = members of
\* 18 or more, children = the other members, and eldest_age = the largest
\* adult age; with one or two adults the sheet and row are those of that
\* composition and age.
C23_CompositionFromMembers ==
    (AutoDetected /\ AdultAges # {}) =>
        LET adults == Len(args[1].members) - ChildCount IN
        /\ ret[1] = calculate_family_floater_premium(args[1].self, adults,
                        ChildCount, Max(AdultAges), args[1].sum_insured,
                        args[1].include_gst)
        /\ (ret[1].kind = "return" /\ "eldest_age" \in DOMAIN ret[1].value) =>
                /\ ret[1].value.eldest_age = Max(AdultAges)
                /\ ret[1].value.num_adults = adults
                /\ ret[1].value.num_children = ChildCount
                /\ ret[1].value.composition = NamedSheet(adults, ChildCount)

\* ages (35, 40, 7): sheet '2 Adults + 1 Child', row of age 40
C23_Witness ==
    /\ AutoDetected
    /\ args[1].members = <<[age |-> Some(35)], [age |-> Some(40)], [age |-> Some(7)]>>
    /\ ret[1].kind = "return"
    /\ "error" \notin DOMAIN ret[1].value
    /\ ret[1].value.composition = SheetName("2 Adults", 1, "Child")
    /\ ret[1].value.eldest_age = 40
    /\ ret[1].value.age_band = <<36, PLUS>>


\* C24: every call of calculate_premium returns a dict and raises nothing,
\* and for an unknown policy_type or an empty member list the dict returned
\* has an 'error' key.
C24_ErrorsAsData ==
    pc = "returned" =>
        /\ ret[1].kind = "return"
        /\ (args[1].policy_type \notin {"individual", "family_floater"}
                \/ args[1].members = << >>)
            => "error" \in DOMAIN ret[1].value


(***************************************************************************)
(* The tools of backend/agents/agentic/react_tools.py.                     *)
(*                                                                         *)
(* A name (policy name, registry key, product directory, query) is a      *)
(* sequence of tokens: a lowercase word, its capitalised form, or one of   *)
(* the characters "_", "-" and " ".  No word of NameWords occurs inside    *)
(* a run of the others, so str.replace and the "in" test on the strings    *)
(* are the same operations on the token sequences.                         *)
(***************************************************************************)
Capital ==
    [w \in {"activ", "assure", "fit", "care", "premium", "chart"} |->
        CASE w = "activ" -> "Activ" [] w = "assure" -> "Assure"
          [] w = "fit" -> "Fit" [] w = "care" -> "Care"
          [] w = "premium" -> "Premium" [] w = "chart" -> "Chart"]

NameWords == DOMAIN Capital

\* str.lower
lower(s) ==
    [i \in 1..Len(s) |->
        IF \E w \in NameWords : Capital[w] = s[i]
        THEN CHOOSE w \in NameWords : Capital[w] = s[i]
        ELSE s[i]]

\* s.replace(old, '')
RECURSIVE replace(_, _)
replace(s, old) ==
    IF Len(s) < Len(old) THEN s
    ELSE IF SubSeq(s, 1, Len(old)) = old
    THEN replace(SubSeq(s, Len(old) + 1, Len(s)), old)
    ELSE <<s[1]>> \o replace(Tail(s), old)

\* a in b, for strings
Within(a, b) ==
    \E i \in 0..(Len(b) - Len(a)) : SubSeq(b, i + 1, i + Len(a)) = a

\* ''.join(word.capitalize() for word in name.split('_'))
PascalCase(name) ==
    LET cased == [i \in 1..Len(name) |->
                    IF (i = 1 \/ name[i - 1] = "_") /\ name[i] \in NameWords
                    THEN Capital[name[i]]
                    ELSE IF i = 1 \/ name[i - 1] = "_" THEN name[i]
                    ELSE lower(<<name[i]>>)[1]]
    IN  SelectSeq(cased, LAMBDA t : t # "_")

\* PremiumCalculatorTool._find_doc_name_for_policy; registry is the list of
\* the registry's keys in file order, None when the file is missing
_find_doc_name_for_policy(registry, policy_name) ==
    LET strip(s) == replace(replace(replace(s, <<"activ">>), <<"_">>), <<"-">>)
        match(policy_lower, normalized_policy, normalized_doc) ==
            LET exact == {i \in 1..Len(registry[1]) :
                            lower(registry[1][i]) = policy_lower}
                pattern == {i \in 1..Len(registry[1]) :
                            \/ Within(normalized_policy, normalized_doc[i])
                            \/ Within(normalized_doc[i], normalized_policy)}
            IN  IF exact # {} THEN Some(registry[1][First(exact)])
                ELSE IF pattern # {} THEN Some(registry[1][First(pattern)])
                ELSE None
        find(policy_lower) ==
            match(policy_lower, strip(policy_lower),
                  [i \in 1..Len(registry[1]) |->
                        replace(replace(strip(lower(registry[1][i])),
                                        <<"premium">>), <<"chart">>)])
    IN  IF registry = None THEN None ELSE find(lower(policy_name))

\* PremiumCalculatorTool._get_available_products
_get_available_products(registry) ==
    IF registry = None THEN << >>
    ELSE [i \in 1..Len(registry[1]) |->
            PascalCase(replace(registry[1][i],
                               <<"_", "premium", "_", "chart">>))]

\* the string a tool returns: its opening words, the rest of the sentence,
\* and the names spelled out in it
Said(head, body, names) == [head |-> head, body |-> body, names |-> names]

\* what execute did: the string returned and the calls made on the
\* calculator or retriever behind the tool
Executed(observation, calls) ==
    [kind |-> "return", value |-> observation, calls |-> calls]

\* the handlers at the end of every execute: json.JSONDecodeError, then
\* Exception with the tool's own wording
InvalidJson == Said("Error:", "Invalid JSON format in action_input", << >>)

\* ProductListTool.execute; products is the listing of the chroma_db
\* directory, None when the directory is missing
ProductListTool_execute(products) ==
    IF products = None
    THEN Executed(Said("Error:", "No products available. ChromaDB directory not found.", << >>), << >>)
    ELSE IF products[1] = << >>
    THEN Executed(Said("Error:", "No products available. Please run ingestion first.", << >>), << >>)
    ELSE Executed(Said("Available insurance products in the system:", "Total", products[1]), << >>)

PremiumCalculatorTool_execute_unchecked(params, registry, load, calculator) ==
    LET answer(policy_name, quote) ==
            IF quote.kind = "raise"
            THEN Said("Error calculating premium:", quote.value, << >>)
            ELSE IF "error" \notin DOMAIN quote.value
            THEN Said("Premium calculated for", "annually", <<policy_name>>)
            ELSE Said("Error calculating premium:", quote.value.error, << >>)
        calculate(policy_name, doc_name) ==
            IF doc_name = None
            THEN Executed(Said("Error:", "Unknown policy",
                            <<policy_name>> \o _get_available_products(registry)), << >>)
            ELSE IF load = "FileNotFoundError"
            THEN Executed(Said("Error:", "Premium data not available for",
                            <<policy_name>>), <<"PremiumCalculator">>)
            ELSE IF load = "Exception"
            THEN Executed(Said("Error:", "Failed to load premium data for",
                            <<policy_name>>), <<"PremiumCalculator">>)
            ELSE Executed(answer(policy_name,
                            calculate_premium(calculator, params.policy_type,
                                params.members, None, None, params.sum_insured, TRUE)),
                          <<"PremiumCalculator", "calculate_premium">>)
    IN  IF params.json = "invalid" THEN Executed(InvalidJson, << >>)
        ELSE IF params.json # "object"
        THEN Executed(Said("Error calculating premium:", "AttributeError", << >>), << >>)
        ELSE IF params.policy_name = None
        THEN Executed(Said("Error:", "policy_name is required", << >>), << >>)
        ELSE calculate(params.policy_name[1],
                       _find_doc_name_for_policy(registry, params.policy_name[1]))

\* PremiumCalculatorTool.execute; params is json.loads(action_input), load
\* what PremiumCalculator(doc_name=...) does, calculator the calculator it
\* builds
PremiumCalculatorTool_execute(params, registry, load, calculator) ==
    LET answer(policy_name, quote) ==
            IF quote.kind = "raise"
            THEN Said("Error calculating premium:", quote.value, << >>)
            ELSE IF "error" \notin DOMAIN quote.value
            THEN Said("Premium calculated for", "annually", <<policy_name>>)
            ELSE Said("Error calculating premium:", quote.value.error, << >>)
        calculate(policy_name, doc_name) ==
            IF doc_name = None
            THEN Executed(Said("Error:", "Unknown policy",
                            <<policy_name>> \o _get_available_products(registry)), << >>)
            ELSE IF load = "FileNotFoundError"
            THEN Executed(Said("Error:", "Premium data not available for",
                            <<policy_name>>), <<"PremiumCalculator">>)
            ELSE IF load = "Exception"
            THEN Executed(Said("Error:", "Failed to load premium data for",
                            <<policy_name>>), <<"PremiumCalculator">>)
            ELSE Executed(answer(policy_name,
                            calculate_premium(calculator, params.policy_type,
                                params.members, None, None, params.sum_insured, TRUE)),
                          <<"PremiumCalculator", "calculate_premium">>)
    IN  IF params.json = "invalid" THEN Executed(InvalidJson, << >>)
        ELSE IF params.json # "object"
        THEN Executed(Said("Error calculating premium:", "AttributeError", << >>), << >>)
        ELSE IF params.policy_name = None
        THEN Executed(Said("Error:", "policy_name is required", << >>), << >>)
        ELSE IF params.members = << >>
        THEN Executed(Said("Error:", "members list is required with age information", << >>), << >>)
        ELSE calculate(params.policy_name[1],
                       _find_doc_name_for_policy(registry, params.policy_name[1]))

\* PolicyComparatorTool.execute; both calculate_premium calls take the same
\* arguments on the same calculator, and no quote carries a 'success' key
PolicyComparatorTool_execute(params, available, calculator) ==
    LET answer(quote) ==
            IF quote.kind = "raise"
            THEN Executed(Said("Error comparing policies:", quote.value, << >>),
                          <<"calculate_premium">>)
            ELSE Executed(Said("Error comparing policies.",
                                      IF "error" \in DOMAIN quote.value
                                      THEN quote.value.error ELSE "Unknown error",
                                      <<params.policy1[1], params.policy2[1]>>),
                          <<"calculate_premium", "calculate_premium">>)
    IN  IF params.json = "invalid" THEN Executed(InvalidJson, << >>)
        ELSE IF params.json # "object"
        THEN Executed(Said("Error comparing policies:", "AttributeError", << >>), << >>)
        ELSE IF params.policy1 = None \/ params.policy2 = None
        THEN Executed(Said("Error:", "Both policy1 and policy2 are required", << >>), << >>)
        ELSE IF params.members = << >>
        THEN Executed(Said("Error:", "members list is required for comparison", << >>), << >>)
        ELSE IF ~available
        THEN Executed(Said("Error:", "Premium calculator not available for comparison", << >>), << >>)
        ELSE answer(calculate_premium(calculator,
                        IF Len(params.members) = 1 THEN "individual" ELSE "family_floater",
                        params.members, None, None, params.sum_insured, TRUE))

\* the characters \b takes for the inside of a word
IsWordToken(t) == t \notin {" ", "-"}

\* DocumentRetrieverTool._detect_product_from_query; products is the listing
\* of the chroma_db directory, None when it is missing
_detect_product_from_query(products, query) ==
    LET found(p, q) ==
            \E i \in 0..(Len(q) - Len(p)) :
                /\ SubSeq(q, i + 1, i + Len(p)) = p
                /\ i = 0 \/ ~IsWordToken(q[i])
                /\ i + Len(p) = Len(q) \/ ~IsWordToken(q[i + Len(p) + 1])
        hits == {k \in 1..Len(products[1]) :
                    found(lower(products[1][k]), lower(query))}
    IN  IF products = None \/ hits = {} THEN None
        ELSE Some(products[1][First(hits)])

\* context.get('selected_product', 'ActivAssure') without the key
DefaultProduct == <<"Activ", "Assure">>

\* DocumentRetrieverTool.execute; a directory is named by its last
\* component, context is context['chroma_db_dir'], and agent says what the
\* retriever holds for the directory chosen
DocumentRetrieverTool_execute(params, products, context, agent) ==
    LET answer(chroma_db_dir) ==
            IF agent.collection # None /\ agent.documents > 0
            THEN Said("Retrieved", "relevant documents", <<chroma_db_dir>>)
            ELSE IF agent.collection = None
            THEN Said("Error:", "No documents available for", <<chroma_db_dir>>)
            ELSE Said("No relevant documents found for the query", "", << >>)
        choose(detected_product) ==
            IF detected_product # None THEN detected_product[1]
            ELSE IF context # None THEN context[1]
            ELSE DefaultProduct
    IN  IF params.json = "invalid" THEN Executed(InvalidJson, << >>)
        ELSE IF params.json # "object"
        THEN Executed(Said("Error retrieving documents:", "AttributeError", << >>), << >>)
        ELSE IF params.query = None
        THEN Executed(Said("Error:", "query parameter is required", << >>), << >>)
        ELSE Executed(answer(choose(_detect_product_from_query(products,
                                                               params.query[1]))),
                      <<"set_chroma_db_dir", "retrieve">>)

\* json.loads('{}') with the defaults of params.get filled in
NoParams ==
    [json |-> "object", policy_name |-> None, policy_type |-> "individual",
     members |-> << >>, sum_insured |-> 500000,
     policy1 |-> None, policy2 |-> None, query |-> None]

ACTIV_ASSURE == <<"activ", "_", "assure", "_", "premium", "_", "chart">>
ACTIV_FIT == <<"activ", "_", "fit", "_", "premium", "_", "chart">>

\* premium_workbooks_registry.json: missing, empty, one or two workbooks
Registries == {None, Some(<< >>), Some(<<ACTIV_ASSURE>>), Some(<<ACTIV_ASSURE, ACTIV_FIT>>)}

PolicyNames ==
    { <<"Activ", "Assure">>, <<"Activ", "Fit">>, <<"activ", "-", "fit">>,
      <<"Activ", "_", "Fit", "_", "Premium", "_", "Chart">>,
      <<"Activ", "Care">>, <<"Care">>, <<"Activ">> }

MemberLists == {<< >>, <<[age |-> Some(35)]>>, <<[age |-> Some(35)], [age |-> Some(NULL)]>>}

\* the product directories under media/output/chroma_db
ProductListings ==
    {None, Some(<< >>), Some(<< <<"Activ", "Assure">>, <<"Activ", "Fit">> >>)}

Queries ==
    { << >>, <<"coverage">>, <<"coverage", " ", "activ", "fit">>,
      <<"Activ", "Fit", " ", "Activ", "Assure">>, <<"x", "Activ", "Fit">> }

\* a string that is not JSON, JSON that is not an object, and objects
ParamsOf(fields) ==
    {[NoParams EXCEPT !.json = "invalid"], [NoParams EXCEPT !.json = "array"]}
        \cup fields

ToolCall(tool, params, env) == Some([tool |-> tool, params |-> params, env |-> env])

NoEnv ==
    [registry |-> None, load |-> "ok", sheets |-> << >>, available |-> TRUE,
     products |-> None, context |-> None, collection |-> None, documents |-> 0]

ToolInit ==
    /\ pc = "call"
    /\ \/ \E products \in ProductListings :
            args = ToolCall("list_products", NoParams,
                            [NoEnv EXCEPT !.products = products])
       \/ \E name \in {None} \cup {Some(n) : n \in PolicyNames} :
          \E type \in {"individual", "family_floater"} : \E ms \in MemberLists :
          \E p \in ParamsOf({[NoParams EXCEPT !.policy_name = name,
                                !.policy_type = type, !.members = ms]}) :
          \E registry \in Registries :
          \E load \in {"ok", "FileNotFoundError", "Exception"} :
          \E wb \in Workbooks :
            args = ToolCall("premium_calculator", p,
                            [NoEnv EXCEPT !.registry = registry, !.load = load,
                                          !.sheets = wb])
       \/ \E p1, p2 \in {None, Some(<<"Activ", "Fit">>)} : \E ms \in MemberLists :
          \E p \in ParamsOf({[NoParams EXCEPT !.policy1 = p1, !.policy2 = p2,
                                !.members = ms]}) :
          \E available \in BOOLEAN : \E wb \in Workbooks :
            args = ToolCall("policy_comparator", p,
                            [NoEnv EXCEPT !.available = available, !.sheets = wb])
       \/ \E query \in {None} \cup {Some(q) : q \in Queries} :
          \E p \in ParamsOf({[NoParams EXCEPT !.query = query]}) :
          \E products \in ProductListings :
          \E context \in {None, Some(<<"Activ", "Care">>)} :
          \E collection \in {None, Some("insurance_chunks")} :
          \E documents \in 0..1 :
            args = ToolCall("document_retriever", p,
                            [NoEnv EXCEPT !.products = products, !.context = context,
                                !.collection = collection, !.documents = documents])
    /\ ret = None
    /\ CalcFrame

ToolStep ==
    /\ pc = "call"
    /\ ret' = Some(
        LET params == args[1].params
            env == args[1].env
            calculator == [gst_rate |-> 18, sheets |-> env.sheets]
        IN  CASE args[1].tool = "list_products" ->
                    ProductListTool_execute(env.products)
              [] args[1].tool = "premium_calculator" ->
                    PremiumCalculatorTool_execute(params, env.registry, env.load,
                                                  calculator)
              [] args[1].tool = "policy_comparator" ->
                    PolicyComparatorTool_execute(params, env.available, calculator)
              [] args[1].tool = "document_retriever" ->
                    DocumentRetrieverTool_execute(params, env.products, env.context,
                                                  env))
    /\ pc' = "returned"
    /\ CalcUnchanged

ToolSpec == ToolInit /\ [][ToolStep]_vars


\* the words of a name, in lower case and without separators
WordsOf(name) ==
    SelectSeq(lower(name), LAMBDA t : t \notin {"_", "-", " "})

\* the policy name is the registry key, or names the product the key is the
\* premium chart of ('ActivAssure' and 'activ_assure_premium_chart')
NamesKey(policy_name, doc_name) ==
    \/ lower(doc_name) = lower(policy_name)
    \/ WordsOf(policy_name) =
            WordsOf(replace(lower(doc_name), <<"_", "premium", "_", "chart">>))

\* a premium_calculator call with a policy name and members in which no
\* registry key is named
UnknownPolicyCall ==
    /\ pc = "returned"
    /\ args[1].tool = "premium_calculator"
    /\ args[1].params.json = "object"
    /\ args[1].params.policy_name # None
    /\ args[1].params.members # << >>
    /\ args[1].env.registry # None =>
            \A i \in 1..Len(args[1].env.registry[1]) :
                ~NamesKey(args[1].params.policy_name[1], args[1].env.registry[1][i])

\* C25: a premium_calculator call whose policy_name names no registry key,
\* also when the registry is missing or empty, returns 'Error: Unknown
\* policy' with the product names read from the registry, and neither
\* raises nor loads a workbook or calculates a premium.
C25_UnknownPolicyRefused ==
    UnknownPolicyCall =>
        /\ ret[1].kind = "return"
        /\ ret[1].value =
                Said("Error:", "Unknown policy",
                     <<args[1].params.policy_name[1]>>
                        \o _get_available_products(args[1].env.registry))
        /\ ret[1].calls = << >>

\* C26: for every action input (not JSON, JSON that is no object, an object
\* with or without its fields) every tool's execute returns a string and
\* raises nothing; an object that lacks a required field (policy_name or
\* members for the calculator, policy1, policy2 or members for the
\* comparator, query for the retriever) is answered with a string that
\* starts with 'Error:', and nothing is calculated or retrieved.
C26_RequiredFieldsChecked ==
    pc = "returned" =>
        /\ ret[1].kind = "return"
        /\ LET p == args[1].params
               missing ==
                    CASE args[1].tool = "premium_calculator" ->
                            p.policy_name = None \/ p.members = << >>
                      [] args[1].tool = "policy_comparator" ->
                            p.policy1 = None \/ p.policy2 = None \/ p.members = << >>
                      [] args[1].tool = "document_retriever" -> p.query = None
                      [] OTHER -> FALSE
           IN  (p.json = "object" /\ missing) =>
                    ret[1].value.head = "Error:" /\ ret[1].calls = << >>

C26_Witness ==
    /\ pc = "returned"
    /\ args[1].tool = "policy_comparator"
    /\ args[1].params.json = "object"
    /\ args[1].params.policy1 # None
    /\ args[1].params.policy2 = None
    /\ ret[1].value = Said("Error:", "Both policy1 and policy2 are required", << >>)


(***************************************************************************)
(* DocumentRetriever of backend/agents/retrievers/document_retriever.py.   *)
(* A ChromaDB directory is named by its product; a collection is named by  *)
(* the directory it was read from, None where get_collection fails or the  *)
(* collection is empty.                                                    *)
(***************************************************************************)
\* set_chroma_db_dir calls in one behaviour
MaxSwitches == 4

ChromaDirs == {"ActivAssure", "ActivFit", "ActivCare"}

\* the directories ingestion has filled
Ingested == {"ActivAssure", "ActivFit"}

\* client.get_collection("insurance_chunks") with the count() test
\* (lines 54-67)
get_collection(chroma_db_dir) ==
    IF chroma_db_dir \in Ingested THEN Some(chroma_db_dir) ELSE None

\* DocumentRetriever._initialize_client
_initialize_client(self, chroma_db_dir) ==
    IF chroma_db_dir \in DOMAIN self._client_cache
    THEN [self EXCEPT !.collection = self._client_cache[chroma_db_dir]]
    ELSE [chroma_db_dir |-> chroma_db_dir,
          collection |-> get_collection(chroma_db_dir),
          _client_cache |->
            [d \in DOMAIN self._client_cache \cup {chroma_db_dir} |->
                IF d = chroma_db_dir THEN get_collection(chroma_db_dir)
                ELSE self._client_cache[d]]]

\* DocumentRetriever.__init__
RetrieverInit ==
    /\ pc = "ready"
    /\ \E d \in ChromaDirs :
        /\ retriever = _initialize_client(
                [chroma_db_dir |-> d, collection |-> None,
                 _client_cache |-> [x \in {} |-> None]], d)
        /\ args = Some([chroma_db_dir |-> d, switches |-> 0])
    /\ ret = None
    /\ memory = None
    /\ ObjectFrame

RetrieverUnchanged ==
    UNCHANGED <<pc, max_iterations, trace, pending, response, llm_calls,
                usage_count, tool_outcome, reasoning_history, result, parsed,
                reset_result, serialized, threads, executes, memory>>

\* DocumentRetriever.set_chroma_db_dir, as DocumentRetrieverTool.execute
\* calls it before every retrieval (react_tools.py:431-432)
set_chroma_db_dir(chroma_db_dir) ==
    /\ args[1].switches < MaxSwitches
    /\ retriever' =
        IF chroma_db_dir # retriever.chroma_db_dir
        THEN _initialize_client(retriever, chroma_db_dir)
        ELSE retriever
    /\ args' = Some([chroma_db_dir |-> chroma_db_dir,
                     switches |-> args[1].switches + 1])
    /\ ret' = None
    /\ RetrieverUnchanged

\* DocumentRetriever.retrieve: the collection the query goes to, None when
\* it answers [] without a query
retrieve ==
    /\ ret = None
    /\ ret' = Some([queried |-> retriever.collection])
    /\ UNCHANGED <<retriever, args>>
    /\ RetrieverUnchanged

RetrieverNext == (\E d \in ChromaDirs : set_chroma_db_dir(d)) \/ retrieve

RetrieverSpec == RetrieverInit /\ [][RetrieverNext]_vars

\* C27: in every state the retriever's chroma_db_dir is the directory most
\* recently asked for, its collection is the one cached for that directory,
\* and a retrieval queries the collection of the directory last selected.
C27_ActiveCollectionFollowsRequest ==
    /\ retriever.chroma_db_dir = args[1].chroma_db_dir
    /\ retriever.collection = retriever._client_cache[retriever.chroma_db_dir]
    /\ ret # None => ret[1].queried = get_collection(args[1].chroma_db_dir)


(***************************************************************************)
(* ConversationMemory of backend/agents/retrievers/conversation_memory.py. *)
(***************************************************************************)
\* add_turn and clear calls in one behaviour
MaxTurns == 4

\* max_history given to the constructor
MaxHistory == 2

\* lst[-n:]
LastN(lst, n) ==
    IF n = 0 \/ n >= Len(lst) THEN lst
    ELSE SubSeq(lst, Len(lst) - n + 1, Len(lst))

\* ConversationMemory.__init__
MemoryInit ==
    /\ pc = "ready"
    /\ \E max_history \in 0..MaxHistory :
        memory = [max_history |-> max_history, conversation_history |-> << >>]
    /\ args = Some([turns |-> << >>, calls |-> 0])
    /\ ret = None
    /\ retriever = None
    /\ ObjectFrame

MemoryUnchanged ==
    UNCHANGED <<pc, max_iterations, trace, pending, response, llm_calls,
                usage_count, tool_outcome, reasoning_history, result, parsed,
                reset_result, serialized, threads, executes, retriever, ret>>

\* ConversationMemory.add_turn; args keeps the turns added since the last
\* clear
add_turn(question, answer) ==
    /\ args[1].calls < MaxTurns
    /\ LET turn == [question |-> question, answer |-> answer]
           appended == memory.conversation_history \o
                        <<[role |-> "user", content |-> question],
                          [role |-> "assistant", content |-> answer]>>
           max_messages == memory.max_history * 2
       IN  /\ memory' = [memory EXCEPT !.conversation_history =
                            IF Len(appended) > max_messages
                            THEN LastN(appended, max_messages)
                            ELSE appended]
           /\ args' = Some([turns |-> Append(args[1].turns, turn),
                            calls |-> args[1].calls + 1])
    /\ MemoryUnchanged

\* ConversationMemory.clear
clear ==
    /\ args[1].calls < MaxTurns
    /\ memory' = [memory EXCEPT !.conversation_history = << >>]
    /\ args' = Some([turns |-> << >>, calls |-> args[1].calls + 1])
    /\ MemoryUnchanged

MemoryNext ==
    \/ \E question \in {"q1", "q2"} : \E answer \in {"a1", "a2"} :
            add_turn(question, answer)
    \/ clear

MemorySpec == MemoryInit /\ [][MemoryNext]_vars

\* ConversationMemory.get_turn_count
get_turn_count(self) == Len(self.conversation_history) \div 2

\* C28: for every max_history >= 0 the history never holds more than
\* 2 * max_history messages (get_turn_count() <= max_history), and it holds
\* the most recent turns in order.
C28_HistoryBounded ==
    /\ Len(memory.conversation_history) <= 2 * memory.max_history
    /\ get_turn_count(memory) <= memory.max_history
    /\ LET n == get_turn_count(memory)
           first == Len(args[1].turns) - n
       IN  \A k \in 1..n :
            /\ memory.conversation_history[2 * k - 1] =
                    [role |-> "user", content |-> args[1].turns[first + k].question]
            /\ memory.conversation_history[2 * k] =
                    [role |-> "assistant", content |-> args[1].turns[first + k].answer]


(***************************************************************************)
(* tools_used of run()'s result and the counts of get_stats                *)
(***************************************************************************)
\* the trace holds an Action step naming tool t whose Observation came from
\* tool.execute, not from the registry lookup failing
ExecutedIn(tr, t) ==
    \E k \in 1..Len(tr.steps) - 1 :
        /\ tr.steps[k].step_type = "action"
        /\ tr.steps[k].tool_used = Some(t)
        /\ tr.steps[k + 1].step_type = "observation"
        /\ tr.steps[k + 1].tool_output[1].kind # "unknown_action"

\* C29: tools_used in the result of run() holds only names of tools of the
\* registry that the run executed, never 'finish'; a name the registry does
\* not hold is never in it.
C29_ToolsUsedAreRegistryTools ==
    result # None =>
        \A t \in result[1].tools_used :
            /\ t # FINISH
            /\ Registered(t)
            /\ ExecutedIn(trace, t)

\* the stored runs that ended without success on the iteration cap
CapHit(history) ==
    Cardinality({k \in 1..Len(history) :
        /\ ~history[k].success
        /\ history[k].final_answer = Some(MAX_ITER_MSG)})

\* C30: between queries, once a run is stored, get_stats reports the number
\* of runs as total_queries, the number of runs with success = True as
\* successful_queries and the number of runs that ended unsuccessfully on
\* the iteration cap as max_iterations_reached; a run that finishes on its
\* last allowed iteration is successful and not counted as capped.
C30_StatsConsistent ==
    pc \in {"idle", "done"} /\ reasoning_history # << >> =>
        LET stats == get_stats(reasoning_history)
        IN  /\ stats.total_queries = Len(reasoning_history)
            /\ stats.successful_queries =
                  Some(Cardinality({k \in 1..Len(reasoning_history) :
                                        reasoning_history[k].success}))
            /\ stats.max_iterations_reached = Some(CapHit(reasoning_history))

====
